---- MODULE Spec2Model ----
(***************************************************************************)
(* copilot-status: the session aggregation engine (SessionProcessor), the *)
(* background tracker (trackCommand), the live dashboard                   *)
(* (dashboardCommand) and the usage log (UsageLogger) as state machines.   *)
(*                                                                         *)
(* Spec      : the session directory, the clock, and callers of            *)
(*             SessionProcessor.getUsageByDate.                            *)
(* SpecParse : callers of SessionProcessor.parseSessionFile.               *)
(* SpecTrack : the track command at the granularity of its awaits.         *)
(* SpecFrame : every operation that reads the session directory, on a      *)
(*             directory nobody else writes to.                            *)
(* SpecLog   : the usage log, its writers and callers of UsageLogger.      *)
(* SpecDash  : the dashboard at the granularity of its awaits and timer.   *)
(* SpecSig   : the interrupt signal, for the tracker and the dashboard.    *)
(* SpecDates : callers of getAvailableDates and getUsageByDate.            *)
(***************************************************************************)
EXTENDS Integers, Sequences, FiniteSets

VARIABLES
    dirState,        \* "ENOENT" | "EACCES" | "ok": ~/.copilot/history-session-state
    dir,             \* the directory listing, in readdir order: <<[name, file]>>
    now,             \* index into Clock: the reading of new Date()
    tz,              \* runtime timezone, minutes east of UTC
    last,            \* the DailyStats handed to the last caller of getUsageByDate
    lastParse,       \* what the last call of parseSessionFile returned or threw
    trackPc,         \* position of trackCommand
    sessionFiles,    \* trackCommand: the listing taken at startup
    startIdx,        \* trackCommand: position in the startup loop
    timerArmed,      \* trackCommand: setInterval has been called
    polls,           \* the checkForNewSessions invocations, by slot
    processedFiles,  \* module-level Set of paths
    totalTracked,    \* module-level counter
    totalTokens,     \* module-level counter
    invoked,         \* per path: how many times processSessionFile was invoked
    byPoll,          \* per path: how many checkForNewSessions invocations passed it on
    trackHandler,    \* trackCommand: process.on('SIGINT', ...) has been called
    summary,         \* the session summary the tracker printed on SIGINT
    lastDates,       \* what the last call of getAvailableDates returned
    logFile,         \* the usage log: [state, lines]
    lastLog,         \* the last completed call of a UsageLogger method
    ensure,          \* position of the ensureLogFile call in flight
    dashPc,          \* position of dashboardCommand
    cursor,          \* the terminal's cursor: "visible" | "hidden"
    dashHandler,     \* dashboardCommand: process.on('SIGINT', ...) has been called
    dashTimer,       \* dashboardCommand: setInterval has been called
    updateCount,     \* dashboardCommand: the counter of updates
    inflight,        \* the updateDashboard calls awaiting their query, oldest first
    lastTick         \* the last updateDashboard call that returned

vars == <<dirState, dir, now, tz, last, lastParse, trackPc, sessionFiles, startIdx,
          timerArmed, polls, processedFiles, totalTracked, totalTokens, invoked,
          byPoll, trackHandler, summary, lastDates, logFile, lastLog, ensure, dashPc, cursor, dashHandler, dashTimer,
          updateCount, inflight, lastTick>>

logVars == <<logFile, lastLog, ensure>>

dashVars == <<dashPc, cursor, dashHandler, dashTimer, updateCount, inflight, lastTick>>

trackVars == <<trackPc, sessionFiles, startIdx, timerArmed, polls,
               processedFiles, totalTracked, totalTokens, invoked,
               byPoll, trackHandler, summary>>

----------------------------------------------------------------------------
(* Bounds *)

MaxFiles == 2        \* entries in the session directory (Spec)
MaxParseFiles == 2   \* entries in the session directory (SpecParse)
MaxTrackFiles == 2   \* entries in the session directory (SpecTrack)
MaxPolls == 2        \* checkForNewSessions invocations in flight
MaxFrameFiles == 2   \* entries in the session directory (SpecFrame)
MaxLines == 3        \* lines in the usage log (SpecLog)
MaxDashFiles == 2    \* entries in the session directory (SpecDash)
MaxTicks == 3        \* updateDashboard calls of one dashboard run
MaxInFlight == 2     \* updateDashboard calls awaiting their query at once
MaxSigFiles == 1     \* entries in the session directory (SpecSig)

----------------------------------------------------------------------------
(* Numbers.  A JavaScript number that may be NaN is [nan, v]. *)

Num(v) == [nan |-> FALSE, v |-> v]
NaN == [nan |-> TRUE, v |-> 0]
NumAdd(a, b) == IF a.nan \/ b.nan THEN NaN ELSE Num(a.v + b.v)
NumSub(a, b) == IF a.nan \/ b.nan THEN NaN ELSE Num(a.v - b.v)

\* mutant: Math.floor in place of Math.ceil
MathCeilDiv_floor(n, d) == n \div d

\* Math.ceil(n / d) for n >= 0, d > 0
MathCeilDiv(n, d) == IF n % d = 0 THEN n \div d ELSE (n \div d) + 1

\* Math.round(n / d) for d > 0: the nearest integer, halves towards +infinity
MathRoundDiv(n, d) == (2 * n + d) \div (2 * d)

RECURSIVE Gcd(_, _)
Gcd(a, b) == IF b = 0 THEN a ELSE Gcd(b, a % b)

\* mutant: the quotient is truncated to a whole number
Quot_truncated(n, d) == [n |-> n \div d, d |-> 1]

\* the quotient n / d (d > 0, n >= 0) as a reduced fraction
Quot(n, d) ==
    LET g == Gcd(n, d) IN
    IF n = 0 THEN [n |-> 0, d |-> 1] ELSE [n |-> n \div g, d |-> d \div g]

----------------------------------------------------------------------------
(* Dates.  Instants are milliseconds since 00:00 UTC of the first day of   *)
(* DayNames; a timestamp string is the record of its written fields.       *)

MsPerSecond == 1000
MsPerMinute == 60 * MsPerSecond
MsPerHour == 60 * MsPerMinute
MsPerDay == 24 * MsPerHour

DayNames == <<"2024-01-13", "2024-01-14", "2024-01-15", "2024-01-16", "2024-01-17">>

\* zone designator of a timestamp string -> minutes east of UTC;
\* a string without designator is read in the runtime's zone
ZoneMinutes(zone, tzm) ==
    CASE zone = "Z" -> 0
      [] zone = "+05:30" -> 330
      [] zone = "-08:00" -> 0 - 480
      [] OTHER -> tzm

Undefined == [kind |-> "undefined", day |-> 0, hour |-> 0, min |-> 0, ms |-> 0, zone |-> ""]
EmptyString == [kind |-> "empty", day |-> 0, hour |-> 0, min |-> 0, ms |-> 0, zone |-> ""]
Garbage == [kind |-> "garbage", day |-> 0, hour |-> 0, min |-> 0, ms |-> 0, zone |-> ""]
Iso(day, hour, min, ms, zone) ==
    [kind |-> "iso", day |-> day, hour |-> hour, min |-> min, ms |-> ms, zone |-> zone]

\* !value for a timestamp field
Falsy(s) == s.kind \in {"undefined", "empty"}

\* new Date(string).getTime()
DateParse(s, tzm) ==
    IF s.kind = "iso"
    THEN Num(s.day * MsPerDay + s.hour * MsPerHour
             + (s.min - ZoneMinutes(s.zone, tzm)) * MsPerMinute + s.ms)
    ELSE NaN

\* date.toISOString().split('T')[0]
ISODate(t) == DayNames[(t \div MsPerDay) + 1]

\* date.getHours(): the hour of the runtime's local time
GetHours(t, tzm) == ((t + tzm * MsPerMinute) \div MsPerHour) % 24

Digits == <<"0", "1", "2", "3", "4", "5", "6", "7", "8", "9">>

\* hour.toString()
toString(h) ==
    IF h < 10 THEN Digits[h + 1] ELSE Digits[(h \div 10) + 1] \o Digits[(h % 10) + 1]

\* s.padStart(2, '0')
PadStart2(s) == IF Len(s) < 2 THEN "0" \o s ELSE s

\* mutant: the padStart is forgotten
HourStr_noPad(h) == toString(h)

\* hour.toString().padStart(2, '0')
HourStr(h) == PadStart2(toString(h))

HoursPerDay == 24

----------------------------------------------------------------------------
(* Session files.                                                          *)
(* A file is [access, text]; text is [kind, value]; a parsed JSON value is *)
(* [type, sessionId, chatMessages, startTime, endTime].                    *)

Roles == {"user", "assistant", "tool", "system"}

\* a chat message; role "" is a missing (or empty) role
Msg(role, hasContent, len, hasCalls, calls) ==
    [role |-> role, content |-> [has |-> hasContent, len |-> len],
     tool_calls |-> [has |-> hasCalls, n |-> calls]]
Text(role, len) == Msg(role, TRUE, len, FALSE, 0)
Calls(role, n) == Msg(role, FALSE, 0, TRUE, n)

Str(s) == [t |-> "string", s |-> s]
NoId == [t |-> "undefined", s |-> ""]
NumId == [t |-> "number", s |-> "7"]
Arr(items) == [t |-> "array", items |-> items]
NoArr == [t |-> "undefined", items |-> <<>>]
StrArr == [t |-> "string", items |-> <<>>]

Obj(id, msgs, start, end) ==
    [type |-> "object", sessionId |-> id, chatMessages |-> msgs,
     startTime |-> start, endTime |-> end]
NonObj(type) ==
    [type |-> type, sessionId |-> NoId, chatMessages |-> NoArr,
     startTime |-> Undefined, endTime |-> Undefined]

Json(value) == [access |-> "ok", text |-> [kind |-> "json", value |-> value]]
Raw(kind) == [access |-> "ok", text |-> [kind |-> kind, value |-> NonObj("null")]]
NoAccess(code) == [access |-> code, text |-> [kind |-> "blank", value |-> NonObj("null")]]

\* files on which parseSessionFile fails
BadFiles == {
    NoAccess("ENOENT"),                       \* dangling link
    NoAccess("EACCES"),                       \* unreadable
    Raw("blank"),                             \* whitespace only
    Raw("garbage"),                           \* JSON.parse throws SyntaxError
    Json(NonObj("null")),
    Json(NonObj("number")),
    Json(NonObj("array")),
    Json(Obj(NoId, Arr(<<>>), Iso(2, 10, 0, 0, "Z"), Undefined)),
    Json(Obj(NumId, Arr(<<>>), Iso(2, 10, 0, 0, "Z"), Undefined)),
    Json(Obj(Str(""), Arr(<<>>), Iso(2, 10, 0, 0, "Z"), Undefined)),
    Json(Obj(Str("s0"), NoArr, Iso(2, 10, 0, 0, "Z"), Undefined)),
    Json(Obj(Str("s0"), StrArr, Iso(2, 10, 0, 0, "Z"), Undefined)),
    Json(Obj(Str("s0"), Arr(<<Text("user", 4), Text("bot", 4)>>),
             Iso(2, 10, 0, 0, "Z"), Undefined)),
    Json(Obj(Str("s0"), Arr(<<Text("", 4)>>), Iso(2, 10, 0, 0, "Z"), Undefined)) }

\* files that hold a session passing the validation
GoodFiles == {
    \* 10:00-10:05 UTC, "abcd" / "abcdefgh"
    Json(Obj(Str("s1"), Arr(<<Text("user", 4), Text("assistant", 8)>>),
             Iso(2, 10, 0, 0, "Z"), Iso(2, 10, 5, 0, "Z"))),
    \* written with an offset: 04:30+05:30 of the 15th is 23:00 UTC of the 14th; open
    Json(Obj(Str("s2"), Arr(<<Text("user", 5), Calls("assistant", 2), Text("tool", 9)>>),
             Iso(2, 4, 30, 0, "+05:30"), Undefined)),
    \* no messages
    Json(Obj(Str("s3"), Arr(<<>>), Iso(2, 14, 0, 0, "Z"), Iso(2, 14, 10, 0, "Z"))),
    \* starts after the first clock readings; open
    Json(Obj(Str("s4"), Arr(<<Text("user", 1)>>), Iso(2, 16, 0, 0, "Z"), Undefined)),
    \* no startTime
    Json(Obj(Str("s5"), Arr(<<Text("user", 4)>>), Undefined, Undefined)),
    \* startTime is not a date
    Json(Obj(Str("s6"), Arr(<<Text("user", 4)>>), Garbage, Undefined)),
    \* the day before; endTime earlier than startTime; tokens but no user message
    Json(Obj(Str("s7"), Arr(<<Text("system", 8), Msg("assistant", TRUE, 0, TRUE, 1)>>),
             Iso(1, 22, 0, 0, "Z"), Iso(1, 21, 0, 0, "Z"))),
    \* no zone designator (read in local time); endTime is not a date
    Json(Obj(Str("s8"), Arr(<<Text("user", 9)>>), Iso(2, 0, 30, 0, ""), Garbage)),
    \* same sessionId as the first; lasts 1.5 s
    Json(Obj(Str("s1"), Arr(<<Text("user", 2), Text("user", 3)>>),
             Iso(2, 11, 0, 0, "Z"), Iso(2, 11, 0, 1500, "Z"))) }

FileContents == BadFiles \cup GoodFiles

\* the failing files the directory scans meet: a missing, an unreadable, an
\* empty, a malformed and a schema-violating one
ScanBadFiles == {
    NoAccess("ENOENT"),
    NoAccess("EACCES"),
    Raw("blank"),
    Raw("garbage"),
    Json(Obj(Str("s0"), Arr(<<Text("user", 4), Text("bot", 4)>>),
             Iso(2, 10, 0, 0, "Z"), Undefined)) }

ScanContents == ScanBadFiles \cup GoodFiles

\* file names, by the parts the listing filter looks at
Name(prefix, id, suffix) == [prefix |-> prefix, id |-> id, suffix |-> suffix]
SessionNames == <<Name("session_", "a", ".json"), Name("session_", "b", ".json"),
                  Name("session_", "c", ".json"), Name("session_", "d", ".json")>>
OtherNames == <<Name("session_", "a", ".json.tmp")>>

\* the readings of the clock, in order
Clock == <<2 * MsPerDay + 12 * MsPerHour,
           2 * MsPerDay + 16 * MsPerHour>>

TimeZones == {0, 330}

\* the dates a caller asks for
Dates == {"2024-01-14", "2024-01-15"}

----------------------------------------------------------------------------
(* SessionProcessor *)

\* fs.readFile(join(historyDir, name)): the file of the entry of that name
ReadFile(d, name) ==
    LET i == CHOOSE j \in 1..Len(d) : d[j].name = name IN d[i].file

IsSessionName(name) == name.prefix = "session_" /\ name.suffix = ".json"

\* mutant: the listing is read whatever fs.access said
getSessionFiles_listsUnreadable(ds, d) ==
    SelectSeq([i \in 1..Len(d) |-> d[i].name], IsSessionName)

getSessionFiles(ds, d) ==
    IF ds # "ok"
    THEN <<>>
    ELSE LET files == [i \in 1..Len(d) |-> d[i].name]
         IN SelectSeq(files, IsSessionName)

Ok(data) == [ok |-> TRUE, error |-> "", data |-> data]
Throw(error) == [ok |-> FALSE, error |-> error, data |-> NonObj("null")]

\* mutant: only the presence of a role is checked
ValidRoles_presenceOnly(items) == \A i \in 1..Len(items) : items[i].role # ""

\* the loop over data.chatMessages
ValidRoles(items) == \A i \in 1..Len(items) : items[i].role # "" /\ items[i].role \in Roles

parseSessionFile(file) ==
    LET data == file.text.value IN
    IF file.access = "ENOENT" THEN Throw("File not found")
    ELSE IF file.access = "EACCES" THEN Throw("Permission denied")
    ELSE IF file.text.kind = "blank" THEN Throw("Failed to parse session file: Empty file")
    ELSE IF file.text.kind = "garbage" THEN Throw("Invalid JSON")
    ELSE IF data.type \in {"null", "zero"} \/ data.type \notin {"object", "array"}
         THEN Throw("Failed to parse session file: Invalid JSON object")
    ELSE IF data.sessionId.t = "undefined" \/ data.sessionId.s = ""
            \/ data.sessionId.t # "string"
         THEN Throw("Failed to parse session file: Missing or invalid sessionId")
    ELSE IF data.chatMessages.t = "undefined" \/ data.chatMessages.t # "array"
         THEN Throw("Failed to parse session file: Missing or invalid chatMessages array")
    ELSE IF ~ValidRoles(data.chatMessages.items)
         THEN Throw("Failed to parse session file: Invalid message role")
    ELSE Ok(data)

\* mutant: no check for future dates
isSessionFromTargetDate_noFutureCheck(sessionData, targetDate, t, tzm) ==
    LET sessionDate == DateParse(sessionData.startTime, tzm) IN
    IF Falsy(sessionData.startTime) THEN FALSE
    ELSE IF sessionDate.nan THEN FALSE
    ELSE ISODate(sessionDate.v) = targetDate

isSessionFromTargetDate(sessionData, targetDate, t, tzm) ==
    LET sessionDate == DateParse(sessionData.startTime, tzm) IN
    IF Falsy(sessionData.startTime) THEN FALSE
    ELSE IF sessionDate.nan THEN FALSE
    ELSE IF sessionDate.v > t THEN FALSE
    ELSE ISODate(sessionDate.v) = targetDate

RECURSIVE SumTokens(_, _)
SumTokens(items, i) ==
    IF i > Len(items) THEN 0
    ELSE (IF items[i].content.has /\ items[i].content.len > 0
          THEN MathCeilDiv(items[i].content.len, 4) ELSE 0)
         + (IF items[i].tool_calls.has THEN items[i].tool_calls.n * 10 ELSE 0)
         + SumTokens(items, i + 1)

estimateTokens(sessionData) == SumTokens(sessionData.chatMessages.items, 1)

countMessages(sessionData) == Len(sessionData.chatMessages.items)

CountRole(sessionData, role) ==
    Len(SelectSeq(sessionData.chatMessages.items, LAMBDA msg : msg.role = role))

countUserMessages(sessionData) == CountRole(sessionData, "user")
countAssistantMessages(sessionData) == CountRole(sessionData, "assistant")
countToolMessages(sessionData) == CountRole(sessionData, "tool")

RECURSIVE SumToolCalls(_, _)
SumToolCalls(items, i) ==
    IF i > Len(items) THEN 0
    ELSE (IF items[i].tool_calls.has THEN items[i].tool_calls.n ELSE 0)
         + SumToolCalls(items, i + 1)

countToolCalls(sessionData) == SumToolCalls(sessionData.chatMessages.items, 1)

\* mutant: the duration is always measured up to now
SessionDuration_ignoresEndTime(sessionData, t, tzm) ==
    LET diff == NumSub(Num(t), DateParse(sessionData.startTime, tzm))
    IN IF Falsy(sessionData.startTime) THEN Num(0)
       ELSE IF diff.nan THEN NaN
       ELSE Num(MathRoundDiv(diff.v, MsPerSecond))

\* Math.round((endTime.getTime() - startTime.getTime()) / 1000), or 0
SessionDuration(sessionData, t, tzm) ==
    LET endTime == IF Falsy(sessionData.endTime) THEN Num(t)
                   ELSE DateParse(sessionData.endTime, tzm)
        diff == NumSub(endTime, DateParse(sessionData.startTime, tzm))
    IN IF Falsy(sessionData.startTime) THEN Num(0)
       ELSE IF diff.nan THEN NaN
       ELSE Num(MathRoundDiv(diff.v, MsPerSecond))

calculateSessionMetrics(sessionData, t, tzm) ==
    [sessionId |-> sessionData.sessionId.s,
     startTime |-> sessionData.startTime,
     endTime |-> sessionData.endTime,
     duration |-> SessionDuration(sessionData, t, tzm),
     tokens |-> estimateTokens(sessionData),
     prompts |-> countUserMessages(sessionData),
     messages |-> countMessages(sessionData),
     toolCalls |-> countToolCalls(sessionData),
     userMessages |-> countUserMessages(sessionData),
     assistantMessages |-> countAssistantMessages(sessionData),
     toolMessages |-> countToolMessages(sessionData)]

\* tokens * 0.000001, in millionths
calculateCost(tokens) == tokens * 1

ZeroBucket == [prompts |-> 0, tokens |-> 0, cost |-> 0, duration |-> Num(0)]

\* the object built by the loop "for (let hour = 0; hour < 24; hour++)"
InitHourly == [k \in {HourStr(h) : h \in 0..(HoursPerDay - 1)} |-> ZeroBucket]

\* mutant: the guard tests endTime in place of startTime
HourlyStep_needsEndTime(acc, metrics, tzm) ==
    LET d == DateParse(metrics.startTime, tzm)
        hourStr == IF d.nan THEN "NaN" ELSE HourStr(GetHours(d.v, tzm))
    IN IF Falsy(metrics.endTime) THEN acc
       ELSE IF hourStr \notin DOMAIN acc.hourly THEN [acc EXCEPT !.threw = TRUE]
       ELSE [acc EXCEPT !.hourly[hourStr] =
                [prompts |-> @.prompts + metrics.prompts,
                 tokens |-> @.tokens + metrics.tokens,
                 cost |-> @.cost + calculateCost(metrics.tokens),
                 duration |-> NumAdd(@.duration, metrics.duration)]]

\* one iteration of the loop over sessionMetrics; an update of a key the
\* object does not hold throws a TypeError
HourlyStep(acc, metrics, tzm) ==
    LET d == DateParse(metrics.startTime, tzm)
        hourStr == IF d.nan THEN "NaN" ELSE HourStr(GetHours(d.v, tzm))
    IN IF Falsy(metrics.startTime) THEN acc
       ELSE IF hourStr \notin DOMAIN acc.hourly THEN [acc EXCEPT !.threw = TRUE]
       ELSE [acc EXCEPT !.hourly[hourStr] =
                [prompts |-> @.prompts + metrics.prompts,
                 tokens |-> @.tokens + metrics.tokens,
                 cost |-> @.cost + calculateCost(metrics.tokens),
                 duration |-> NumAdd(@.duration, metrics.duration)]]

RECURSIVE HourlyFold(_, _, _, _)
HourlyFold(sessionMetrics, i, acc, tzm) ==
    IF i > Len(sessionMetrics) \/ acc.threw THEN acc
    ELSE HourlyFold(sessionMetrics, i + 1, HourlyStep(acc, sessionMetrics[i], tzm), tzm)

calculateHourlyBreakdown(sessionMetrics, tzm) ==
    HourlyFold(sessionMetrics, 1, [threw |-> FALSE, hourly |-> InitHourly], tzm)

createEmptyStats(date) ==
    [date |-> date,
     totalPrompts |-> 0,
     totalTokens |-> 0,
     totalCost |-> 0,
     averagePromptTokens |-> Quot(0, 1),
     averageCompletionTokens |-> Quot(0, 1),
     totalDuration |-> Num(0),
     uniqueSessions |-> 0,
     commands |-> [c \in {} |-> 0],
     models |-> [m \in {} |-> 0],
     hourlyBreakdown |-> [k \in {HourStr(h) : h \in 0..(HoursPerDay - 1)} |-> ZeroBucket]]

\* the sum of a field over the first i elements
RECURSIVE Reduce(_, _, _)
Reduce(sessionMetrics, field, i) ==
    IF i = 0 THEN 0 ELSE Reduce(sessionMetrics, field, i - 1) + sessionMetrics[i][field]

\* mutant: the last element is left out of the sum
SumField_dropsLast(sessionMetrics, field) ==
    Reduce(sessionMetrics, field, Len(sessionMetrics) - 1)

\* sessionMetrics.reduce((sum, s) => sum + s.<field>, 0)
SumField(sessionMetrics, field) == Reduce(sessionMetrics, field, Len(sessionMetrics))

RECURSIVE ReduceDuration(_, _)
ReduceDuration(sessionMetrics, i) ==
    IF i = 0 THEN Num(0)
    ELSE NumAdd(ReduceDuration(sessionMetrics, i - 1), sessionMetrics[i].duration)

\* [threw, stats]: threw when calculateHourlyBreakdown raised
aggregateDailyStats(date, sessionMetrics, tzm) ==
    LET n == Len(sessionMetrics)
        totTokens == SumField(sessionMetrics, "tokens")
        totPrompts == SumField(sessionMetrics, "prompts")
        totDuration == ReduceDuration(sessionMetrics, n)
        averagePromptTokens == IF totPrompts > 0 THEN Quot(totTokens, totPrompts) ELSE Quot(0, 1)
        averageCompletionTokens ==
            IF totPrompts > 0
            THEN Quot(totTokens * averagePromptTokens.d - averagePromptTokens.n,
                      averagePromptTokens.d)
            ELSE Quot(0, 1)
        hourly == calculateHourlyBreakdown(sessionMetrics, tzm)
    IN IF n = 0 THEN [threw |-> FALSE, stats |-> createEmptyStats(date)]
       ELSE [threw |-> hourly.threw,
             stats |-> [date |-> date,
                        totalPrompts |-> totPrompts,
                        totalTokens |-> totTokens,
                        totalCost |-> calculateCost(totTokens),
                        averagePromptTokens |-> averagePromptTokens,
                        averageCompletionTokens |-> averageCompletionTokens,
                        totalDuration |-> totDuration,
                        uniqueSessions |-> n,
                        commands |-> [c \in {} |-> 0],
                        models |-> [m \in {"github-copilot"} |-> totPrompts],
                        hourlyBreakdown |-> hourly.hourly]]

\* the body of the loop over sessionFiles: what happens to one file
ScanFile(file, targetDate, t, tzm) ==
    LET parsed == parseSessionFile(file) IN
    IF ~parsed.ok THEN "failed"
    ELSE IF isSessionFromTargetDate(parsed.data, targetDate, t, tzm) THEN "pushed"
    ELSE "skipped"

\* mutant: the first failing file ends the scan
ScanFiles_abortsOnFailure(d, files, targetDate, t, tzm) ==
    [i \in 1..Len(files) |->
        IF \E j \in 1..(i - 1) : ~parseSessionFile(ReadFile(d, files[j])).ok
        THEN "unscanned"
        ELSE ScanFile(ReadFile(d, files[i]), targetDate, t, tzm)]

\* the loop over sessionFiles: per file what happened to it
ScanFiles(d, files, targetDate, t, tzm) ==
    [i \in 1..Len(files) |-> ScanFile(ReadFile(d, files[i]), targetDate, t, tzm)]

\* sessionMetrics after the loop: the metrics of the pushed files, in order
RECURSIVE Pushed(_, _, _, _, _, _)
Pushed(d, files, outcome, i, t, tzm) ==
    IF i > Len(files) THEN <<>>
    ELSE (IF outcome[i] = "pushed"
          THEN <<calculateSessionMetrics(parseSessionFile(ReadFile(d, files[i])).data, t, tzm)>>
          ELSE <<>>)
         \o Pushed(d, files, outcome, i + 1, t, tzm)

\* mutant: no try/catch inside the loop, and the outer handler rethrows
getUsageByDate_noInnerCatch(ds, d, targetDate, t, tzm) ==
    LET files == getSessionFiles(ds, d)
        outcome == ScanFiles(d, files, targetDate, t, tzm)
        sessionMetrics == Pushed(d, files, outcome, 1, t, tzm)
        agg == aggregateDailyStats(targetDate, sessionMetrics, tzm)
    IN [threw |-> agg.threw \/ \E i \in 1..Len(files) : outcome[i] = "failed",
        stats |-> agg.stats,
        outcome |-> outcome,
        metrics |-> sessionMetrics]

\* [threw, stats, outcome, metrics]: whether an error reached the caller,
\* the DailyStats returned, the fate of each listed file and the
\* sessionMetrics the loop collected
getUsageByDate(ds, d, targetDate, t, tzm) ==
    LET files == getSessionFiles(ds, d)
        outcome == ScanFiles(d, files, targetDate, t, tzm)
        sessionMetrics == Pushed(d, files, outcome, 1, t, tzm)
        agg == aggregateDailyStats(targetDate, sessionMetrics, tzm)
        caught == agg.threw     \* the outer catch block runs and returns
    IN [threw |-> agg.threw /\ ~caught,
        stats |-> IF caught THEN createEmptyStats(targetDate) ELSE agg.stats,
        outcome |-> outcome,
        metrics |-> sessionMetrics]

\* the body of the loop of getAvailableDates: does the file add a date
HasDate(file, tzm) ==
    LET parsed == parseSessionFile(file) IN
    /\ parsed.ok
    /\ ~Falsy(parsed.data.startTime)
    /\ ~DateParse(parsed.data.startTime, tzm).nan    \* else toISOString() throws

\* getAvailableDates(): Array.from(dates).sort(); the sort of ISO dates is
\* their order in the calendar
getAvailableDates(ds, d, tzm) ==
    LET files == getSessionFiles(ds, d)
        dates == {ISODate(DateParse(parseSessionFile(ReadFile(d, files[i])).data.startTime,
                                    tzm).v) :
                     i \in {j \in 1..Len(files) : HasDate(ReadFile(d, files[j]), tzm)}}
    IN SelectSeq(DayNames, LAMBDA date : date \in dates)

----------------------------------------------------------------------------
(* UsageLogger: the log file and its lines.                                *)
(* The log file is [state, lines]: state "nodir" (no parent directory),    *)
(* "absent" (directory without the file), "ok", or "EACCES" (a file the    *)
(* user may neither read nor write); a line is [kind, value].              *)

LogFile(state, lines) == [state |-> state, lines |-> lines]

\* a JSON object with the fields of a CopilotUsage
Entry(timestamp, command, model, sessionId, promptTokens, completionTokens, cost, duration) ==
    [type |-> "object", timestamp |-> timestamp, command |-> command, model |-> model,
     sessionId |-> sessionId, promptTokens |-> promptTokens,
     completionTokens |-> completionTokens,
     totalTokens |-> promptTokens + completionTokens, cost |-> cost, duration |-> duration]

\* a JSON value that is no object
NonEntry(type) ==
    [type |-> type, timestamp |-> Undefined, command |-> "", model |-> "",
     sessionId |-> "", promptTokens |-> 0, completionTokens |-> 0, totalTokens |-> 0,
     cost |-> 0, duration |-> 0]

JsonLine(value) == [kind |-> "json", value |-> value]
RawLine(kind) == [kind |-> kind, value |-> NonEntry("null")]

\* the lines other writers leave in the log: the shell wrapper's event with
\* the timestamp of `date -Iseconds` (04:30+05:30 of the 15th is 23:00 UTC
\* of the 14th), a broken line, a blank line, the JSON value null, and
\* objects without a timestamp or with one that is no date
WrapperLines == {
    JsonLine(Entry(Iso(2, 4, 30, 0, "+05:30"), "copilot explain", "github-copilot-explain",
                   "w2", 50, 150, 200, 800)),
    RawLine("garbage"),
    RawLine("blank"),
    JsonLine(NonEntry("null")),
    JsonLine(Entry(Undefined, "copilot chat", "gpt-4", "w3", 100, 200, 300, 500)),
    JsonLine(Entry(Garbage, "copilot chat", "gpt-4", "w3", 100, 200, 300, 500)) }

\* the CopilotUsage values callers pass to logUsage; timestamp is a Date:
\* 10:00 and 11:30 UTC of the 15th, and an invalid Date
Usages == {
    Entry(Num(2 * MsPerDay + 10 * MsPerHour), "copilot suggest", "github-copilot-suggest",
          "w1", 60, 120, 180, 1200),
    Entry(Num(2 * MsPerDay + 11 * MsPerHour + 30 * MsPerMinute), "copilot suggest",
          "github-copilot-suggest", "w1", 70, 140, 210, 900),
    Entry(NaN, "copilot chat", "gpt-4", "w3", 100, 200, 300, 500) }

\* date.toISOString() of a valid Date: the fields of the UTC time, zone Z
ToISOString(t) ==
    Iso(t \div MsPerDay, (t % MsPerDay) \div MsPerHour, (t % MsPerHour) \div MsPerMinute,
        t % MsPerMinute, "Z")

\* isoString.startsWith(date), date being the ten characters YYYY-MM-DD
StartsWith(iso, date) == DayNames[iso.day + 1] = date

\* fs.appendFile(logFile, line + '\n')
AppendFile(log, line) ==
    CASE log.state = "nodir" -> [error |-> "ENOENT", log |-> log]
      [] log.state = "EACCES" -> [error |-> "EACCES", log |-> log]
      [] log.state = "absent" -> [error |-> "", log |-> LogFile("ok", <<line>>)]
      [] OTHER -> [error |-> "", log |-> LogFile("ok", Append(log.lines, line))]

\* [threw, log]: logUsage(usage) on the log file
logUsage(log, usage) ==
    LET logEntry == [usage EXCEPT !.timestamp = ToISOString(usage.timestamp.v)]
        appended == AppendFile(log, JsonLine(logEntry))
    IN IF usage.timestamp.nan
       THEN [threw |-> TRUE, error |-> "RangeError", log |-> log]   \* toISOString()
       ELSE [threw |-> FALSE, error |-> appended.error, log |-> appended.log]

\* line.trim() is not empty
NonBlank(line) == line.kind # "blank"

Null == [null |-> TRUE, entry |-> NonEntry("null")]

\* mutant: the timestamp is read as written, whatever its zone designator
ParseLine_ignoresZone(line, tzm) ==
    IF line.kind = "garbage" \/ line.value.type = "null" THEN Null
    ELSE [null |-> FALSE,
          entry |-> [line.value EXCEPT
                        !.timestamp = DateParse([line.value.timestamp EXCEPT !.zone = "Z"], tzm)]]

\* the callback of lines.map: JSON.parse and new Date(entry.timestamp), or
\* null when either throws
ParseLine(line, tzm) ==
    IF line.kind = "garbage" THEN Null                 \* SyntaxError
    ELSE IF line.value.type = "null" THEN Null         \* TypeError: entry.timestamp
    ELSE [null |-> FALSE,
          entry |-> [line.value EXCEPT !.timestamp = DateParse(line.value.timestamp, tzm)]]

\* the callback of filter, for an entry with a valid Date
MatchesDate(entry, date) == StartsWith(ToISOString(entry.timestamp.v), date)

NoEvents(threw, error) == [threw |-> threw, error |-> error, events |-> <<>>]

\* mutant: the first line that fails to parse ends the read
getUsageForDate_abortsOnBadLine(log, date, tzm) ==
    LET lines == SelectSeq(log.lines, NonBlank)
        good == {i \in 1..Len(lines) : \A j \in 1..i : lines[j].kind # "garbage"}
        entries == [i \in 1..Cardinality(good) |-> ParseLine(lines[i], tzm)]
        kept == SelectSeq(entries, LAMBDA e : ~e.null)
    IN IF log.state \in {"nodir", "absent"} THEN NoEvents(FALSE, "")
       ELSE IF log.state = "EACCES" THEN NoEvents(TRUE, "EACCES")
       ELSE IF \E i \in 1..Len(kept) : kept[i].entry.timestamp.nan
            THEN NoEvents(TRUE, "RangeError")
       ELSE [threw |-> FALSE, error |-> "",
             events |-> [i \in 1..Len(SelectSeq(kept, LAMBDA e : MatchesDate(e.entry, date)))
                            |-> SelectSeq(kept, LAMBDA e : MatchesDate(e.entry, date))[i].entry]]

\* [threw, error, events]: getUsageForDate(date) on the log file
getUsageForDate(log, date, tzm) ==
    LET lines == SelectSeq(log.lines, NonBlank)
        entries == [i \in 1..Len(lines) |-> ParseLine(lines[i], tzm)]
        kept == SelectSeq(entries, LAMBDA e : ~e.null)
        matching == SelectSeq(kept, LAMBDA e : MatchesDate(e.entry, date))
    IN IF log.state \in {"nodir", "absent"} THEN NoEvents(FALSE, "")   \* ENOENT: []
       ELSE IF log.state = "EACCES" THEN NoEvents(TRUE, "EACCES")      \* rethrown
       ELSE IF \E i \in 1..Len(kept) : kept[i].entry.timestamp.nan
            THEN NoEvents(TRUE, "RangeError")          \* toISOString(), rethrown
       ELSE [threw |-> FALSE, error |-> "",
             events |-> [i \in 1..Len(matching) |-> matching[i].entry]]

\* mutant: the count of a key is set, not incremented
Increment_overwrites(map, key) ==
    [k \in DOMAIN map \cup {key} |-> IF k = key THEN 1 ELSE map[k]]

\* map[key] = (map[key] || 0) + 1
Increment(map, key) ==
    [k \in DOMAIN map \cup {key} |->
        IF k = key THEN (IF key \in DOMAIN map THEN map[key] ELSE 0) + 1 ELSE map[k]]

\* mutant: every event of the day is counted into its bucket anew
AddToHour_overwrites(hourly, hour, entry) ==
    [h \in DOMAIN hourly \cup {hour} |->
        IF h = hour
        THEN [prompts |-> 1, tokens |-> entry.totalTokens, cost |-> entry.cost,
              duration |-> entry.duration]
        ELSE hourly[h]]

\* the bucket of the hour is created when missing, then added to
AddToHour(hourly, hour, entry) ==
    LET bucket == IF hour \in DOMAIN hourly THEN hourly[hour]
                  ELSE [prompts |-> 0, tokens |-> 0, cost |-> 0, duration |-> 0]
    IN [h \in DOMAIN hourly \cup {hour} |->
           IF h = hour
           THEN [prompts |-> bucket.prompts + 1,
                 tokens |-> bucket.tokens + entry.totalTokens,
                 cost |-> bucket.cost + entry.cost,
                 duration |-> bucket.duration + entry.duration]
           ELSE hourly[h]]

\* the callback of usage.forEach
UsageStep(acc, entry, tzm) ==
    [commands |-> Increment(acc.commands, entry.command),
     models |-> Increment(acc.models, entry.model),
     sessions |-> acc.sessions \cup {entry.sessionId},
     totalPromptTokens |-> acc.totalPromptTokens + entry.promptTokens,
     totalCompletionTokens |-> acc.totalCompletionTokens + entry.completionTokens,
     hourlyBreakdown |->
         AddToHour(acc.hourlyBreakdown, HourStr(GetHours(entry.timestamp.v, tzm)), entry)]

RECURSIVE UsageFold(_, _, _, _)
UsageFold(usage, i, acc, tzm) ==
    IF i > Len(usage) THEN acc
    ELSE UsageFold(usage, i + 1, UsageStep(acc, usage[i], tzm), tzm)

\* the DailyStats of getDailyStats for usage.length === 0
NoUsageStats(date) ==
    [date |-> date,
     totalPrompts |-> 0,
     totalTokens |-> 0,
     totalCost |-> 0,
     averagePromptTokens |-> Quot(0, 1),
     averageCompletionTokens |-> Quot(0, 1),
     totalDuration |-> 0,
     uniqueSessions |-> 0,
     commands |-> [c \in {} |-> 0],
     models |-> [m \in {} |-> 0],
     hourlyBreakdown |-> [h \in {} |-> 0]]

\* [threw, stats]: getDailyStats(date) on the log file
getDailyStats(log, date, tzm) ==
    LET read == getUsageForDate(log, date, tzm)
        usage == read.events
        acc == UsageFold(usage, 1,
                         [commands |-> [c \in {} |-> 0], models |-> [m \in {} |-> 0],
                          sessions |-> {}, totalPromptTokens |-> 0,
                          totalCompletionTokens |-> 0,
                          hourlyBreakdown |-> [h \in {} |-> 0]], tzm)
    IN IF read.threw THEN [threw |-> TRUE, stats |-> NoUsageStats(date)]
       ELSE IF Len(usage) = 0 THEN [threw |-> FALSE, stats |-> NoUsageStats(date)]
       ELSE [threw |-> FALSE,
             stats |-> [date |-> date,
                        totalPrompts |-> Len(usage),
                        totalTokens |-> SumField(usage, "totalTokens"),
                        totalCost |-> SumField(usage, "cost"),
                        averagePromptTokens |-> Quot(acc.totalPromptTokens, Len(usage)),
                        averageCompletionTokens |->
                            Quot(acc.totalCompletionTokens, Len(usage)),
                        totalDuration |-> SumField(usage, "duration"),
                        uniqueSessions |-> Cardinality(acc.sessions),
                        commands |-> acc.commands,
                        models |-> acc.models,
                        hourlyBreakdown |-> acc.hourlyBreakdown]]

\* fs.access(logFile): does the call succeed
FsAccess(log) == log.state \in {"ok", "EACCES"}

\* fs.mkdir(path.dirname(logFile), { recursive: true })
FsMkdir(log) == IF log.state = "nodir" THEN LogFile("absent", <<>>) ELSE log

\* fs.writeFile(logFile, '')
FsWriteFile(log) ==
    CASE log.state = "nodir" -> [error |-> "ENOENT", log |-> log]
      [] log.state = "EACCES" -> [error |-> "EACCES", log |-> log]
      [] OTHER -> [error |-> "", log |-> LogFile("ok", <<>>)]

NoLogCall ==
    [op |-> "none", date |-> "", threw |-> FALSE, error |-> "", events |-> <<>>,
     stats |-> NoUsageStats(""), before |-> LogFile("nodir", <<>>),
     usage |-> NonEntry("null")]

NoEnsure == [pc |-> "idle", before |-> LogFile("nodir", <<>>)]

\* no UsageLogger is in use
LoggerOff ==
    /\ logFile = LogFile("nodir", <<>>)
    /\ lastLog = NoLogCall
    /\ ensure = NoEnsure

\* nothing has been printed
NoSummary == [printed |-> FALSE, tracked |-> 0, tokens |-> 0]

\* the counters trackCommand declares for itself (let totalTracked = 0, let
\* totalTokens = 0): the SIGINT handler reads them, no statement assigns
\* them; processSessionFile updates the counters of the module
TrackLocals == [totalTracked |-> 0, totalTokens |-> 0]

NoTick ==
    [valid |-> FALSE, failed |-> FALSE, today |-> "", startedAt |-> 0, at |-> 0,
     stats |-> createEmptyStats(""), seen |-> <<>>, failures |-> 0]

\* no dashboard is running
DashOff ==
    /\ dashPc = "off"
    /\ cursor = "visible"
    /\ dashHandler = FALSE
    /\ dashTimer = FALSE
    /\ updateCount = 0
    /\ inflight = <<>>
    /\ lastTick = NoTick

----------------------------------------------------------------------------
(* Spec: the session directory, the clock and the callers of getUsageByDate *)

NoParse == [valid |-> FALSE, name |-> OtherNames[1], result |-> Throw("")]

NoCall ==
    [valid |-> FALSE, date |-> "", at |-> 0, repeated |-> FALSE, threw |-> FALSE,
     stats |-> createEmptyStats(""), outcome |-> <<>>, metrics |-> <<>>]

NoDates == [valid |-> FALSE, dates |-> <<>>]

UsedNames(d) == {d[i].name : i \in 1..Len(d)}

\* the name the external agent gives its next session file
FreshName(d) ==
    SessionNames[CHOOSE i \in 1..Len(SessionNames) :
                    /\ SessionNames[i] \notin UsedNames(d)
                    /\ \A j \in 1..(i - 1) : SessionNames[j] \in UsedNames(d)]

TrackerIdle ==
    /\ trackPc = "off"
    /\ UNCHANGED trackVars
    /\ UNCHANGED lastParse
    /\ UNCHANGED logVars
    /\ UNCHANGED dashVars

\* the Copilot CLI creates its state directory
MkDir ==
    /\ dirState = "ENOENT"
    /\ dirState' = "ok"
    /\ last' = NoCall
    /\ lastDates' = NoDates
    /\ UNCHANGED <<dir, now, tz>>
    /\ TrackerIdle

\* the user is given access to the directory
Chmod ==
    /\ dirState = "EACCES"
    /\ dirState' = "ok"
    /\ last' = NoCall
    /\ lastDates' = NoDates
    /\ UNCHANGED <<dir, now, tz>>
    /\ TrackerIdle

\* the external agent writes a session file
AddSessionFile(file) ==
    /\ dirState = "ok"
    /\ Len(dir) < MaxFiles
    /\ dir' = Append(dir, [name |-> FreshName(dir), file |-> file])
    /\ last' = NoCall
    /\ lastDates' = NoDates
    /\ UNCHANGED <<dirState, now, tz>>
    /\ TrackerIdle

\* some other file appears in the directory
AddOtherFile(name) ==
    /\ dirState = "ok"
    /\ Len(dir) < MaxFiles
    /\ name \notin UsedNames(dir)
    /\ dir' = Append(dir, [name |-> name,
                           file |-> Json(Obj(Str("s9"), Arr(<<Text("user", 40)>>),
                                             Iso(2, 9, 0, 0, "Z"), Iso(2, 9, 1, 0, "Z")))])
    /\ last' = NoCall
    /\ lastDates' = NoDates
    /\ UNCHANGED <<dirState, now, tz>>
    /\ TrackerIdle

\* time passes
Tick ==
    /\ now < Len(Clock)
    /\ now' = now + 1
    /\ UNCHANGED <<dirState, dir, tz, last, lastDates>>
    /\ TrackerIdle

\* mutant: the files that failed to parse are removed from the directory
CallGetUsageByDate_prunesFailing(targetDate) ==
    /\ LET r == getUsageByDate(dirState, dir, targetDate, Clock[now], tz)
       IN last' = [valid |-> TRUE, date |-> targetDate, at |-> now,
                   repeated |-> FALSE, threw |-> r.threw,
                   stats |-> r.stats, outcome |-> r.outcome, metrics |-> r.metrics]
    /\ dir' = SelectSeq(dir, LAMBDA e : parseSessionFile(e.file).ok)
    /\ UNCHANGED <<dirState, now, tz, lastDates>>
    /\ TrackerIdle

\* a caller (stats, dashboard) awaits processor.getUsageByDate(targetDate)
CallGetUsageByDate(targetDate) ==
    /\ LET r == getUsageByDate(dirState, dir, targetDate, Clock[now], tz)
       IN last' = [valid |-> TRUE, date |-> targetDate, at |-> now,
                   repeated |-> last.valid /\ last.date = targetDate /\ last.at < now,
                   threw |-> r.threw,
                   stats |-> r.stats, outcome |-> r.outcome, metrics |-> r.metrics]
    /\ UNCHANGED <<dirState, dir, now, tz, lastDates>>
    /\ TrackerIdle

\* a caller (dashboard) awaits processor.getAvailableDates()
CallGetAvailableDates ==
    /\ lastDates' = [valid |-> TRUE, dates |-> getAvailableDates(dirState, dir, tz)]
    /\ UNCHANGED <<dirState, dir, now, tz, last>>
    /\ TrackerIdle

\* a session, of another day's, in a directory the user may not read
Unreadable ==
    <<[name |-> SessionNames[1],
       file |-> Json(Obj(Str("s1"), Arr(<<Text("user", 4), Text("assistant", 8)>>),
                         Iso(2, 10, 0, 0, "Z"), Iso(2, 10, 5, 0, "Z")))]>>

Init ==
    /\ \/ dirState = "ENOENT" /\ dir = <<>>
       \/ dirState = "EACCES" /\ dir = Unreadable
    /\ now = 1
    /\ tz \in TimeZones
    /\ last = NoCall
    /\ lastParse = NoParse
    /\ trackPc = "off"
    /\ sessionFiles = <<>>
    /\ startIdx = 0
    /\ timerArmed = FALSE
    /\ polls = [s \in 1..MaxPolls |-> [pc |-> "idle", newFiles |-> <<>>, idx |-> 0]]
    /\ processedFiles = {}
    /\ totalTracked = 0
    /\ totalTokens = 0
    /\ invoked = [n \in {} |-> 0]
    /\ byPoll = [n \in {} |-> 0]
    /\ trackHandler = FALSE
    /\ summary = NoSummary
    /\ lastDates = NoDates
    /\ LoggerOff
    /\ DashOff

Next ==
    \/ MkDir
    \/ Chmod
    \/ \E file \in ScanContents : AddSessionFile(file)
    \/ \E i \in 1..Len(OtherNames) : AddOtherFile(OtherNames[i])
    \/ Tick
    \/ \E targetDate \in Dates : CallGetUsageByDate(targetDate)

Spec == Init /\ [][Next]_vars

TypeOK ==
    /\ dirState \in {"ENOENT", "EACCES", "ok"}
    /\ Len(dir) <= MaxFiles
    /\ now \in 1..Len(Clock)

----------------------------------------------------------------------------
(* Properties of getUsageByDate (Spec).  While last.valid holds the        *)
(* directory is the one the call saw; the call read the clock at last.at.  *)

Files == getSessionFiles(dirState, dir)
FileAt(i) == ReadFile(dir, Files[i])
CallTime == Clock[last.at]

RECURSIVE SumOver(_, _)
SumOver(S, f) ==
    IF S = {} THEN 0
    ELSE LET x == CHOOSE y \in S : TRUE IN f[x] + SumOver(S \ {x}, f)

RECURSIVE NumSumOver(_, _)
NumSumOver(S, f) ==
    IF S = {} THEN Num(0)
    ELSE LET x == CHOOSE y \in S : TRUE IN NumAdd(f[x], NumSumOver(S \ {x}, f))

\* the condition under which a file yields a session
WellFormed(file) ==
    /\ file.access = "ok"
    /\ file.text.kind = "json"
    /\ file.text.value.type = "object"
    /\ file.text.value.sessionId.t = "string"
    /\ file.text.value.sessionId.s # ""
    /\ file.text.value.chatMessages.t = "array"
    /\ \A k \in 1..Len(file.text.value.chatMessages.items) :
          file.text.value.chatMessages.items[k].role \in Roles

\* startTime is a valid timestamp whose UTC calendar date is date
StartsOn(session, date) ==
    /\ session.startTime.kind = "iso"
    /\ \E k \in 1..Len(DayNames) :
          /\ DayNames[k] = date
          /\ (k - 1) * MsPerDay <= DateParse(session.startTime, tz).v
          /\ DateParse(session.startTime, tz).v < k * MsPerDay

\* the sessions of the directory that match date at time t
Matching(date, t) ==
    {i \in 1..Len(Files) :
        /\ WellFormed(FileAt(i))
        /\ StartsOn(FileAt(i).text.value, date)
        /\ DateParse(FileAt(i).text.value.startTime, tz).v <= t}

\* every session of the target date is closed and had begun by time t
Settled(date, t) ==
    \A i \in 1..Len(Files) :
        (WellFormed(FileAt(i)) /\ StartsOn(FileAt(i).text.value, date))
            => /\ ~Falsy(FileAt(i).text.value.endTime)
               /\ DateParse(FileAt(i).text.value.startTime, tz).v <= t

\* C2 (as claimed): two calls for the same date with no change to the
\* directory in between return the same DailyStats, whatever time passed.
C2_SameStatsTwice ==
    [][(last.valid /\ last'.valid /\ last'.date = last.date)
          => last'.stats = last.stats]_vars

\* C2 (amended): two calls for the same date with no change to the
\* directory in between return the same DailyStats in every field, provided
\* every session of that date has an endTime and a startTime not later than
\* the time of the first call.
C2_SameStatsTwiceWhenSettled ==
    [][(last.valid /\ last'.valid /\ last'.date = last.date /\ Settled(last.date, CallTime))
          => last'.stats = last.stats]_vars

\* a repeated call, after time has passed, that found settled sessions
C2_Witness ==
    /\ last.valid
    /\ last.repeated
    /\ last.stats.uniqueSessions > 0
    /\ Settled(last.date, Clock[1])

\* the directory without the files that fail to parse
WithoutBad(d) == SelectSeq(d, LAMBDA e : e.file \notin BadFiles)

\* C3: a file that fails parseSessionFile, wherever it is listed, leaves the
\* DailyStats as for the other files alone, and the files listed after it
\* are still scanned.
C3_FailingFileChangesNothing ==
    last.valid =>
        /\ last.stats = getUsageByDate(dirState, WithoutBad(dir), last.date, CallTime, tz).stats
        /\ Len(last.outcome) = Len(Files)
        /\ \A i \in 1..Len(Files) :
              FileAt(i) \notin BadFiles => last.outcome[i] \in {"pushed", "skipped"}

\* a failing file is listed before a session that was counted
C3_Witness ==
    /\ last.valid
    /\ \E i, j \in 1..Len(Files) :
          /\ i < j
          /\ FileAt(i) \in BadFiles
          /\ last.outcome[j] = "pushed"

\* C5: a parsed session is included for date D iff its startTime is a valid
\* timestamp, not later than the current time, whose UTC date is D; a
\* session that starts in the future is included for no date.
C5_IncludedIffStartsOnDate ==
    last.valid =>
        /\ {i \in 1..Len(Files) : last.outcome[i] = "pushed"} = Matching(last.date, CallTime)
        /\ \A i \in 1..Len(Files) :
              (/\ WellFormed(FileAt(i))
               /\ FileAt(i).text.value.startTime.kind = "iso"
               /\ DateParse(FileAt(i).text.value.startTime, tz).v > CallTime)
                  => last.outcome[i] = "skipped"

\* a session of the target date that starts after the call is left out
C5_Witness ==
    /\ last.valid
    /\ \E i \in 1..Len(Files) :
          /\ WellFormed(FileAt(i))
          /\ StartsOn(FileAt(i).text.value, last.date)
          /\ DateParse(FileAt(i).text.value.startTime, tz).v > CallTime
          /\ last.outcome[i] = "skipped"

\* the SessionMetrics of the i-th listed file at the time of the call
MetricsAt(i) == calculateSessionMetrics(FileAt(i).text.value, CallTime, tz)

Permutations(n) == {p \in [1..n -> 1..n] : \A a, b \in 1..n : p[a] = p[b] => a = b}

Totals(stats) ==
    <<stats.totalTokens, stats.totalPrompts, stats.totalDuration, stats.uniqueSessions>>

\* C6: the totals are the sums over the matching sessions of their tokens,
\* prompts and durations, uniqueSessions is their number, and none of the
\* four depends on the order of the listing.
C6_TotalsAreSums ==
    last.valid =>
        LET M == Matching(last.date, CallTime) IN
        /\ last.stats.totalTokens = SumOver(M, [i \in M |-> MetricsAt(i).tokens])
        /\ last.stats.totalPrompts = SumOver(M, [i \in M |-> MetricsAt(i).prompts])
        /\ last.stats.totalDuration = NumSumOver(M, [i \in M |-> MetricsAt(i).duration])
        /\ last.stats.uniqueSessions = Cardinality(M)
        /\ \A p \in Permutations(Len(dir)) :
              Totals(getUsageByDate(dirState, [i \in 1..Len(dir) |-> dir[p[i]]],
                                    last.date, CallTime, tz).stats)
                = Totals(last.stats)

\* two sessions matched and their tokens were added up
C6_Witness ==
    /\ last.valid
    /\ last.stats.uniqueSessions >= 2
    /\ \E i, j \in Matching(last.date, CallTime) :
          /\ i # j
          /\ MetricsAt(i).tokens > 0
          /\ MetricsAt(j).tokens > 0
          /\ last.stats.totalTokens = MetricsAt(i).tokens + MetricsAt(j).tokens

Hours24 ==
    {"00", "01", "02", "03", "04", "05", "06", "07", "08", "09", "10", "11",
     "12", "13", "14", "15", "16", "17", "18", "19", "20", "21", "22", "23"}

\* C7: every DailyStats returned has exactly the 24 hour keys "00".."23".
C7_TwentyFourHourKeys ==
    last.valid => DOMAIN last.stats.hourlyBreakdown = Hours24

\* a call that counted a session into an hour bucket
C7_Witness ==
    /\ last.valid
    /\ last.stats.uniqueSessions > 0
    /\ \E h \in Hours24 : last.stats.hourlyBreakdown[h].tokens > 0

\* C8: totalPrompts is the sum of the prompts of the hour buckets.
C8_PromptsSumOverHours ==
    last.valid =>
        last.stats.totalPrompts
          = SumOver(DOMAIN last.stats.hourlyBreakdown,
                    [h \in DOMAIN last.stats.hourlyBreakdown |->
                        last.stats.hourlyBreakdown[h].prompts])

\* prompts were accumulated into two different hour buckets
C8_Witness ==
    /\ last.valid
    /\ \E g, h \in Hours24 :
          /\ g # h
          /\ last.stats.hourlyBreakdown[g].prompts > 0
          /\ last.stats.hourlyBreakdown[h].prompts > 0

\* the directory without its i-th session file
WithoutFile(i) == SelectSeq(dir, LAMBDA e : e.name # Files[i])

\* C9 (as claimed): a matching session with no messages adds 1 to
\* uniqueSessions and 0 to every summed field, durations included.
C9_EmptySessionAddsNothing ==
    last.valid =>
        \A i \in Matching(last.date, CallTime) :
            FileAt(i).text.value.chatMessages.items = <<>> =>
                LET without == getUsageByDate(dirState, WithoutFile(i), last.date,
                                              CallTime, tz).stats
                IN /\ last.stats.uniqueSessions = without.uniqueSessions + 1
                   /\ last.stats.totalTokens = without.totalTokens
                   /\ last.stats.totalPrompts = without.totalPrompts
                   /\ last.stats.totalCost = without.totalCost
                   /\ last.stats.totalDuration = without.totalDuration
                   /\ last.stats.hourlyBreakdown = without.hourlyBreakdown

\* the least n with 4 * n >= len
CeilQuarter(len) == CHOOSE n \in 0..len : 4 * n >= len /\ 4 * (n - 1) < len

\* the token estimate and the prompt count of a session, as specified
TokensOf(session) ==
    LET items == session.chatMessages.items
        I == 1..Len(items)
    IN SumOver(I, [k \in I |->
           (IF items[k].content.has THEN CeilQuarter(items[k].content.len) ELSE 0)
           + (IF items[k].tool_calls.has THEN 10 * items[k].tool_calls.n ELSE 0)])

PromptsOf(session) ==
    Cardinality({k \in 1..Len(session.chatMessages.items) :
                    session.chatMessages.items[k].role = "user"})

\* the listed files that were pushed, in order
RECURSIVE PushedIdx(_)
PushedIdx(i) ==
    IF i > Len(last.outcome) THEN <<>>
    ELSE (IF last.outcome[i] = "pushed" THEN <<i>> ELSE <<>>) \o PushedIdx(i + 1)

\* C10: for every validated session, tokens is the sum over its messages of
\* ceil(length(content) / 4) plus 10 per tool call, and prompts is the
\* number of user messages.
C10_TokenEstimate ==
    /\ last.valid =>
          /\ Len(last.metrics) = Len(PushedIdx(1))
          /\ \A k \in 1..Len(last.metrics) :
                /\ last.metrics[k].tokens = TokensOf(FileAt(PushedIdx(1)[k]).text.value)
                /\ last.metrics[k].prompts = PromptsOf(FileAt(PushedIdx(1)[k]).text.value)
    /\ \A i \in 1..Len(Files) :
          WellFormed(FileAt(i)) =>
              LET metrics == calculateSessionMetrics(FileAt(i).text.value, Clock[now], tz)
              IN /\ metrics.tokens = TokensOf(FileAt(i).text.value)
                 /\ metrics.prompts = PromptsOf(FileAt(i).text.value)
    /\ \A len \in 1..4 : MathCeilDiv(len, 4) = 1
    /\ \A len \in 5..8 : MathCeilDiv(len, 4) = 2

\* metrics were computed for a session with tool calls and with contents
\* whose lengths are not multiples of four
C10_Witness ==
    /\ last.valid
    /\ \E k \in 1..Len(last.metrics) :
          /\ last.metrics[k].toolCalls = 2
          /\ last.metrics[k].tokens = 25
          /\ last.metrics[k].prompts = 1

\* n / d = a / b, for fractions with positive denominators
SameQuotient(q, a, b) == q.n * b = a * q.d

\* C11 (as claimed): averagePromptTokens is totalTokens / totalPrompts, or 0
\* without prompts, and averageCompletionTokens is totalTokens minus
\* averagePromptTokens in both cases.
C11_AveragesInBothCases ==
    (last.valid /\ last.stats.uniqueSessions > 0) =>
        LET stats == last.stats IN
        /\ stats.totalPrompts > 0 =>
              SameQuotient(stats.averagePromptTokens, stats.totalTokens, stats.totalPrompts)
        /\ stats.totalPrompts = 0 => stats.averagePromptTokens.n = 0
        /\ SameQuotient(stats.averageCompletionTokens,
                        stats.totalTokens * stats.averagePromptTokens.d
                          - stats.averagePromptTokens.n,
                        stats.averagePromptTokens.d)

\* C11 (amended): averagePromptTokens is totalTokens / totalPrompts and
\* averageCompletionTokens is totalTokens minus averagePromptTokens when
\* totalPrompts > 0; both are 0 when totalPrompts = 0, whatever totalTokens.
C11_AveragesZeroWithoutPrompts ==
    (last.valid /\ last.stats.uniqueSessions > 0) =>
        LET stats == last.stats IN
        /\ stats.totalPrompts > 0 =>
              /\ SameQuotient(stats.averagePromptTokens, stats.totalTokens,
                              stats.totalPrompts)
              /\ SameQuotient(stats.averageCompletionTokens,
                              stats.totalTokens * stats.totalPrompts - stats.totalTokens,
                              stats.totalPrompts)
        /\ stats.totalPrompts = 0 =>
              /\ stats.averagePromptTokens.n = 0
              /\ stats.averageCompletionTokens.n = 0

\* sessions were aggregated whose tokens per prompt is not a whole number
C11_Witness ==
    /\ last.valid
    /\ last.stats.uniqueSessions = 2
    /\ last.stats.totalPrompts = 3
    /\ last.stats.totalTokens = 5
    /\ last.stats.averagePromptTokens = [n |-> 5, d |-> 3]
    /\ last.stats.averageCompletionTokens = [n |-> 10, d |-> 3]

\* no entry of the directory is a session that matches date at time t
NoneMatches(date, t) ==
    \/ dirState # "ok"
    \/ \A i \in 1..Len(dir) :
          ~ /\ dir[i].name.prefix = "session_"
            /\ dir[i].name.suffix = ".json"
            /\ WellFormed(dir[i].file)
            /\ StartsOn(dir[i].file.text.value, date)
            /\ DateParse(dir[i].file.text.value.startTime, tz).v <= t

\* the DailyStats of a day without activity
ZeroStats(date) ==
    [date |-> date, totalPrompts |-> 0, totalTokens |-> 0, totalCost |-> 0,
     averagePromptTokens |-> [n |-> 0, d |-> 1],
     averageCompletionTokens |-> [n |-> 0, d |-> 1],
     totalDuration |-> Num(0), uniqueSessions |-> 0,
     commands |-> <<>>, models |-> <<>>,
     hourlyBreakdown |->
         [h \in Hours24 |-> [prompts |-> 0, tokens |-> 0, cost |-> 0, duration |-> Num(0)]]]

\* C12: when no session matches the target date (the directory is missing
\* or inaccessible, or holds no matching session file), getUsageByDate
\* returns for that date a DailyStats with every total and average 0, no
\* command and no model, and the 24 hour buckets all zero.
C12_ZeroStatsWithoutMatch ==
    (last.valid /\ NoneMatches(last.date, CallTime)) => last.stats = ZeroStats(last.date)

\* a call found only an unparseable file and a session of another day
C12_Witness ==
    /\ last.valid
    /\ dirState = "ok"
    /\ NoneMatches(last.date, CallTime)
    /\ \E i, j \in 1..Len(Files) :
          /\ FileAt(i) \in BadFiles
          /\ WellFormed(FileAt(j))
          /\ FileAt(j).text.value.startTime.kind = "iso"
          /\ ~StartsOn(FileAt(j).text.value, last.date)

StatsFields ==
    {"date", "totalPrompts", "totalTokens", "totalCost", "averagePromptTokens",
     "averageCompletionTokens", "totalDuration", "uniqueSessions", "commands",
     "models", "hourlyBreakdown"}

\* C13: getUsageByDate propagates no error: whatever the state of the
\* directory and the content of its files, the call returns a DailyStats
\* whose date is the requested date; a file that cannot be read or parsed is
\* passed over, and a directory that cannot be listed counts as empty.
C13_NeverPropagates ==
    last.valid =>
        /\ ~last.threw
        /\ DOMAIN last.stats = StatsFields
        /\ last.stats.date = last.date
        /\ dirState # "ok" => last.outcome = <<>>
        /\ \A i \in 1..Len(last.outcome) :
              last.outcome[i] = "failed" <=> ~WellFormed(FileAt(i))

\* a call met a file that could not be parsed, and still counted a session
C13_Witness ==
    /\ last.valid
    /\ ~last.threw
    /\ last.stats.uniqueSessions > 0
    /\ \E i \in 1..Len(last.outcome) : last.outcome[i] = "failed"

----------------------------------------------------------------------------
(* SpecParse: files of every kind, and callers of parseSessionFile *)

AggregatorIdle ==
    /\ trackPc = "off"
    /\ UNCHANGED <<dirState, now, tz, last, lastDates>>
    /\ UNCHANGED trackVars
    /\ UNCHANGED logVars
    /\ UNCHANGED dashVars

\* a file of any content appears in the directory
PutFile(file) ==
    /\ Len(dir) < MaxParseFiles
    /\ dir' = Append(dir, [name |-> FreshName(dir), file |-> file])
    /\ UNCHANGED lastParse
    /\ AggregatorIdle

\* a caller awaits processor.parseSessionFile(join(historyDir, name))
CallParseSessionFile(i) ==
    /\ lastParse' = [valid |-> TRUE, name |-> dir[i].name,
                     result |-> parseSessionFile(ReadFile(dir, dir[i].name))]
    /\ UNCHANGED dir
    /\ AggregatorIdle

InitParse ==
    /\ dirState = "ok"
    /\ dir = <<>>
    /\ now = 1
    /\ tz = 0
    /\ last = NoCall
    /\ lastParse = NoParse
    /\ trackPc = "off"
    /\ sessionFiles = <<>>
    /\ startIdx = 0
    /\ timerArmed = FALSE
    /\ polls = [s \in 1..MaxPolls |-> [pc |-> "idle", newFiles |-> <<>>, idx |-> 0]]
    /\ processedFiles = {}
    /\ totalTracked = 0
    /\ totalTokens = 0
    /\ invoked = [n \in {} |-> 0]
    /\ byPoll = [n \in {} |-> 0]
    /\ trackHandler = FALSE
    /\ summary = NoSummary
    /\ lastDates = NoDates
    /\ LoggerOff
    /\ DashOff

NextParse ==
    \/ \E file \in FileContents : PutFile(file)
    \/ \E i \in 1..Len(dir) : CallParseSessionFile(i)

SpecParse == InitParse /\ [][NextParse]_vars

\* C4: parseSessionFile succeeds exactly on an existing, readable file whose
\* content is a JSON object with a non-empty string sessionId and an array
\* chatMessages all of whose elements have one of the four roles; then it
\* returns the parsed value, and in every other case it throws and returns
\* no session.
C4_ParseSucceedsIffWellFormed ==
    lastParse.valid =>
        LET file == ReadFile(dir, lastParse.name) IN
        /\ lastParse.result.ok <=> WellFormed(file)
        /\ lastParse.result.ok => lastParse.result.data = file.text.value
        /\ ~lastParse.result.ok =>
              /\ lastParse.result.error # ""
              /\ lastParse.result.data = NonObj("null")

\* a JSON object that violates the schema only by a message role was refused
C4_Witness ==
    /\ lastParse.valid
    /\ ~lastParse.result.ok
    /\ LET value == ReadFile(dir, lastParse.name).text.value IN
          /\ ReadFile(dir, lastParse.name).text.kind = "json"
          /\ value.type = "object"
          /\ value.sessionId = Str("s0")
          /\ value.chatMessages.t = "array"
          /\ \E k \in 1..Len(value.chatMessages.items) :
                value.chatMessages.items[k].role = "bot"

----------------------------------------------------------------------------
(* SpecTrack: trackCommand, one step per resumption after an await *)

\* the files the tracker meets: two sessions and a file that fails to parse
TrackContents == {
    Json(Obj(Str("s1"), Arr(<<Text("user", 4), Text("assistant", 8)>>),
             Iso(2, 10, 0, 0, "Z"), Iso(2, 10, 5, 0, "Z"))),
    Json(Obj(Str("s2"), Arr(<<Text("user", 5), Calls("assistant", 2), Text("tool", 9)>>),
             Iso(2, 4, 30, 0, "+05:30"), Undefined)),
    Raw("garbage") }

NameSet == {SessionNames[i] : i \in 1..Len(SessionNames)}

IdlePoll == [pc |-> "idle", newFiles |-> <<>>, idx |-> 0]

AggregatorUnused ==
    /\ UNCHANGED <<dirState, now, tz, last, lastParse, lastDates>>
    /\ UNCHANGED logVars
    /\ UNCHANGED dashVars

\* the Copilot CLI writes a session file, before or while the tracker runs
AddTrackFile(file) ==
    /\ Len(dir) < MaxTrackFiles
    /\ dir' = Append(dir, [name |-> FreshName(dir), file |-> file])
    /\ UNCHANGED trackVars
    /\ AggregatorUnused

\* processSessionFile(sessionFile) is called: it runs up to its first await
InvokeProcess(sessionFile) ==
    invoked' = [invoked EXCEPT ![sessionFile] = @ + 1]

\* processSessionFile resumes after parseSessionFile: the counters are
\* updated unless the parse threw
CompleteProcess(sessionFile) ==
    LET r == parseSessionFile(ReadFile(dir, sessionFile))
        metrics == calculateSessionMetrics(r.data, Clock[now], tz)
    IN IF r.ok
       THEN /\ totalTracked' = totalTracked + 1
            /\ totalTokens' = totalTokens + metrics.tokens
       ELSE UNCHANGED <<totalTracked, totalTokens>>

\* trackCommand resumes after sessionFiles = await processor.getSessionFiles()
\* and runs up to the loop over the existing sessions: it declares its
\* counters and installs the SIGINT handler
TrackList ==
    /\ trackPc = "start"
    /\ sessionFiles' = getSessionFiles(dirState, dir)
    /\ startIdx' = 1
    /\ trackPc' = "existing"
    /\ UNCHANGED <<dir, timerArmed, polls, processedFiles, totalTracked, totalTokens, invoked>>
    /\ trackHandler' = TRUE
    /\ UNCHANGED <<byPoll, summary>>
    /\ AggregatorUnused

\* the loop over the existing sessions calls processSessionFile
TrackProcess ==
    /\ trackPc = "existing"
    /\ startIdx <= Len(sessionFiles)
    /\ InvokeProcess(sessionFiles[startIdx])
    /\ trackPc' = "awaitProcess"
    /\ UNCHANGED <<dir, sessionFiles, startIdx, timerArmed, polls, processedFiles,
                   totalTracked, totalTokens>>
    /\ UNCHANGED <<byPoll, trackHandler, summary>>
    /\ AggregatorUnused

\* ... and resumes when it has completed
TrackProcessed ==
    /\ trackPc = "awaitProcess"
    /\ CompleteProcess(sessionFiles[startIdx])
    /\ startIdx' = startIdx + 1
    /\ trackPc' = "existing"
    /\ UNCHANGED <<dir, sessionFiles, timerArmed, polls, processedFiles, invoked>>
    /\ UNCHANGED <<byPoll, trackHandler, summary>>
    /\ AggregatorUnused

\* after the loop: setInterval(...), then the initial checkForNewSessions()
TrackWatch ==
    /\ trackPc = "existing"
    /\ startIdx > Len(sessionFiles)
    /\ timerArmed' = TRUE
    /\ polls' = [polls EXCEPT ![1] = [pc |-> "list", newFiles |-> <<>>, idx |-> 0]]
    /\ trackPc' = "watching"
    /\ UNCHANGED <<dir, sessionFiles, startIdx, processedFiles, totalTracked, totalTokens,
                   invoked>>
    /\ UNCHANGED <<byPoll, trackHandler, summary>>
    /\ AggregatorUnused

\* the interval timer fires: another checkForNewSessions() starts
TimerFire(s) ==
    /\ timerArmed
    /\ polls[s].pc = "idle"
    /\ \A r \in 1..(s - 1) : polls[r].pc # "idle"
    /\ polls' = [polls EXCEPT ![s] = [pc |-> "list", newFiles |-> <<>>, idx |-> 0]]
    /\ UNCHANGED <<dir, trackPc, sessionFiles, startIdx, timerArmed, processedFiles,
                   totalTracked, totalTokens, invoked>>
    /\ UNCHANGED <<byPoll, trackHandler, summary>>
    /\ AggregatorUnused

\* checkForNewSessions resumes after getSessionFiles and filters the listing
PollList(s) ==
    /\ polls[s].pc = "list"
    /\ LET currentFiles == getSessionFiles(dirState, dir)
           newFiles == SelectSeq(currentFiles, LAMBDA file : file \notin processedFiles)
       IN polls' = [polls EXCEPT ![s] = [pc |-> "loop", newFiles |-> newFiles, idx |-> 1]]
    /\ UNCHANGED <<dir, trackPc, sessionFiles, startIdx, timerArmed, processedFiles,
                   totalTracked, totalTokens, invoked>>
    /\ UNCHANGED <<byPoll, trackHandler, summary>>
    /\ AggregatorUnused

\* the loop over newFiles: processedFiles.add(newFile), then processSessionFile
PollProcess(s) ==
    /\ polls[s].pc = "loop"
    /\ polls[s].idx <= Len(polls[s].newFiles)
    /\ processedFiles' = processedFiles \cup {polls[s].newFiles[polls[s].idx]}
    /\ InvokeProcess(polls[s].newFiles[polls[s].idx])
    /\ polls' = [polls EXCEPT ![s].pc = "await"]
    /\ UNCHANGED <<dir, trackPc, sessionFiles, startIdx, timerArmed, totalTracked,
                   totalTokens>>
    /\ byPoll' = [byPoll EXCEPT ![polls[s].newFiles[polls[s].idx]] = @ + 1]
    /\ UNCHANGED <<trackHandler, summary>>
    /\ AggregatorUnused

\* ... and resumes when it has completed
PollProcessed(s) ==
    /\ polls[s].pc = "await"
    /\ CompleteProcess(polls[s].newFiles[polls[s].idx])
    /\ polls' = [polls EXCEPT ![s].pc = "loop", ![s].idx = @ + 1]
    /\ UNCHANGED <<dir, trackPc, sessionFiles, startIdx, timerArmed, processedFiles,
                   invoked>>
    /\ UNCHANGED <<byPoll, trackHandler, summary>>
    /\ AggregatorUnused

\* the loop is over: checkForNewSessions returns
PollDone(s) ==
    /\ polls[s].pc = "loop"
    /\ polls[s].idx > Len(polls[s].newFiles)
    /\ polls' = [polls EXCEPT ![s] = IdlePoll]
    /\ UNCHANGED <<dir, trackPc, sessionFiles, startIdx, timerArmed, processedFiles,
                   totalTracked, totalTokens, invoked>>
    /\ UNCHANGED <<byPoll, trackHandler, summary>>
    /\ AggregatorUnused

\* SIGINT arrives: the handler, when installed, prints the summary from the
\* counters of trackCommand and calls process.exit(0); without a handler
\* the signal ends the process.  Nothing of the process runs afterwards
TrackInterrupt ==
    /\ trackPc \in {"start", "existing", "awaitProcess", "watching"}
    /\ IF trackHandler
       THEN /\ summary' = [printed |-> TRUE, tracked |-> TrackLocals.totalTracked,
                           tokens |-> TrackLocals.totalTokens]
            /\ trackPc' = "exited"
       ELSE /\ UNCHANGED summary
            /\ trackPc' = "killed"
    /\ timerArmed' = FALSE
    /\ polls' = [s \in 1..MaxPolls |-> IdlePoll]
    /\ UNCHANGED <<dir, sessionFiles, startIdx, processedFiles, totalTracked, totalTokens,
                   invoked, byPoll, trackHandler>>
    /\ AggregatorUnused

InitTrack ==
    /\ dirState = "ok"
    /\ dir = <<>>
    /\ now = 1
    /\ tz = 0
    /\ last = NoCall
    /\ lastParse = NoParse
    /\ trackPc = "start"
    /\ sessionFiles = <<>>
    /\ startIdx = 0
    /\ timerArmed = FALSE
    /\ polls = [s \in 1..MaxPolls |-> IdlePoll]
    /\ processedFiles = {}
    /\ totalTracked = 0
    /\ totalTokens = 0
    /\ invoked = [n \in NameSet |-> 0]
    /\ byPoll = [n \in NameSet |-> 0]
    /\ trackHandler = FALSE
    /\ summary = NoSummary
    /\ lastDates = NoDates
    /\ LoggerOff
    /\ DashOff

NextTrack ==
    \/ \E file \in TrackContents : AddTrackFile(file)
    \/ TrackList
    \/ TrackProcess
    \/ TrackProcessed
    \/ TrackWatch
    \/ \E s \in 1..MaxPolls : TimerFire(s)
    \/ \E s \in 1..MaxPolls : PollList(s)
    \/ \E s \in 1..MaxPolls : PollProcess(s)
    \/ \E s \in 1..MaxPolls : PollProcessed(s)
    \/ \E s \in 1..MaxPolls : PollDone(s)
    \/ TrackInterrupt

SpecTrack == InitTrack /\ [][NextTrack]_vars

\* C1: every session file path is passed to processSessionFile exactly once:
\* never twice, whether by the startup pass, the initial poll or a later one.
C1_EachFileProcessedOnce ==
    \A name \in NameSet : invoked[name] <= 1

----------------------------------------------------------------------------
(* SpecFrame: every operation that reads the session directory, on a       *)
(* directory no other program writes to meanwhile.                         *)

\* the files of the directory: a session and a file that fails to parse
FrameContents == {
    Json(Obj(Str("s1"), Arr(<<Text("user", 4), Text("assistant", 8)>>),
             Iso(2, 10, 0, 0, "Z"), Iso(2, 10, 5, 0, "Z"))),
    Raw("garbage") }

\* the directories: up to MaxFrameFiles files
FrameDirs ==
    UNION {{[i \in 1..n |-> [name |-> SessionNames[i], file |-> f[i]]] :
               f \in [1..n -> FrameContents]} : n \in 0..MaxFrameFiles}

InitFrame ==
    /\ dirState = "ok"
    /\ dir \in FrameDirs
    /\ now = 1
    /\ tz = 0
    /\ last = NoCall
    /\ lastParse = NoParse
    /\ lastDates = NoDates
    /\ trackPc \in {"off", "start"}
    /\ sessionFiles = <<>>
    /\ startIdx = 0
    /\ timerArmed = FALSE
    /\ polls = [s \in 1..MaxPolls |-> IdlePoll]
    /\ processedFiles = {}
    /\ totalTracked = 0
    /\ totalTokens = 0
    /\ invoked = [n \in NameSet |-> 0]
    /\ byPoll = [n \in NameSet |-> 0]
    /\ trackHandler = FALSE
    /\ summary = NoSummary
    /\ LoggerOff
    /\ DashOff

NextFrame ==
    \/ \E targetDate \in Dates : CallGetUsageByDate(targetDate)
    \/ CallGetAvailableDates
    \/ \E i \in 1..Len(dir) : CallParseSessionFile(i)
    \/ TrackList
    \/ TrackProcess
    \/ TrackProcessed
    \/ TrackWatch
    \/ \E s \in 1..MaxPolls : TimerFire(s)
    \/ \E s \in 1..MaxPolls : PollList(s)
    \/ \E s \in 1..MaxPolls : PollProcess(s)
    \/ \E s \in 1..MaxPolls : PollProcessed(s)
    \/ \E s \in 1..MaxPolls : PollDone(s)

SpecFrame == InitFrame /\ [][NextFrame]_vars

\* C14: no operation of the program (getUsageByDate, which is also the
\* dashboard's refresh tick, getAvailableDates, parseSessionFile, the startup
\* pass and the polls of track) changes the set of files of the session
\* directory, the content of a file, or the state of the directory.
C14_NoWritesToSessions ==
    [][dir' = dir /\ dirState' = dirState]_vars

\* the tracker has polled and counted sessions of a directory of two files
C14_Witness ==
    /\ trackPc = "watching"
    /\ Len(dir) >= 2
    /\ processedFiles # {}
    /\ totalTracked >= 2

----------------------------------------------------------------------------
(* SpecLog: the usage log, its writers and the callers of UsageLogger.     *)
(* ensureLogFile takes one step per await; lastLog.before is the log file  *)
(* the last completed call was made on.                                    *)

SessionsUnused ==
    /\ UNCHANGED <<dirState, dir, now, tz, last, lastParse, lastDates>>
    /\ UNCHANGED trackVars
    /\ UNCHANGED dashVars

LogCall(op, date, threw, error, events, stats, before, usage) ==
    [op |-> op, date |-> date, threw |-> threw, error |-> error, events |-> events,
     stats |-> stats, before |-> before, usage |-> usage]

\* the shell wrapper (or any other writer) appends a line: echo ... >> "$LOG_FILE"
WrapperAppend(line) ==
    /\ logFile.state \in {"absent", "ok"}
    /\ Len(logFile.lines) < MaxLines
    /\ logFile' = AppendFile(logFile, line).log
    /\ lastLog' = NoLogCall
    /\ UNCHANGED ensure
    /\ SessionsUnused

\* the user is given access to the log file
LogChmod ==
    /\ logFile.state = "EACCES"
    /\ logFile' = [logFile EXCEPT !.state = "ok"]
    /\ lastLog' = NoLogCall
    /\ UNCHANGED ensure
    /\ SessionsUnused

\* a caller awaits logger.logUsage(usage)
CallLogUsage(usage) ==
    /\ Len(logFile.lines) < MaxLines
    /\ LET r == logUsage(logFile, usage)
       IN /\ logFile' = r.log
          /\ lastLog' = LogCall("logUsage", "", r.threw, r.error, <<>>, NoUsageStats(""),
                                logFile, usage)
    /\ UNCHANGED ensure
    /\ SessionsUnused

\* a caller awaits logger.getUsageForDate(date)
CallGetUsageForDate(date) ==
    /\ LET r == getUsageForDate(logFile, date, tz)
       IN lastLog' = LogCall("getUsageForDate", date, r.threw, r.error, r.events,
                             NoUsageStats(""), logFile, NonEntry("null"))
    /\ UNCHANGED <<logFile, ensure>>
    /\ SessionsUnused

\* a caller awaits logger.getDailyStats(date)
CallGetDailyStats(date) ==
    /\ LET r == getDailyStats(logFile, date, tz)
       IN lastLog' = LogCall("getDailyStats", date, r.threw, "",
                             getUsageForDate(logFile, date, tz).events, r.stats,
                             logFile, NonEntry("null"))
    /\ UNCHANGED <<logFile, ensure>>
    /\ SessionsUnused

\* mutant: the file is written without looking whether it exists
EnsureAccess_skipsCheck ==
    /\ ensure.pc = "idle"
    /\ ensure' = [pc |-> "mkdir", before |-> logFile]
    /\ UNCHANGED <<logFile, lastLog>>
    /\ SessionsUnused

\* ensureLogFile() is called and resumes after fs.access: it returns when the
\* file exists, and goes on to create it otherwise
EnsureAccess ==
    /\ ensure.pc = "idle"
    /\ IF FsAccess(logFile)
       THEN /\ lastLog' = LogCall("ensureLogFile", "", FALSE, "", <<>>, NoUsageStats(""),
                                  logFile, NonEntry("null"))
            /\ UNCHANGED ensure
       ELSE /\ ensure' = [pc |-> "mkdir", before |-> logFile]
            /\ UNCHANGED lastLog
    /\ UNCHANGED logFile
    /\ SessionsUnused

\* ... resumes after fs.mkdir
EnsureMkdir ==
    /\ ensure.pc = "mkdir"
    /\ logFile' = FsMkdir(logFile)
    /\ ensure' = [ensure EXCEPT !.pc = "write"]
    /\ UNCHANGED lastLog
    /\ SessionsUnused

\* ... resumes after fs.writeFile and returns, or throws its error
EnsureWrite ==
    /\ ensure.pc = "write"
    /\ LET w == FsWriteFile(logFile)
       IN /\ logFile' = w.log
          /\ lastLog' = LogCall("ensureLogFile", "", w.error # "", w.error, <<>>,
                                NoUsageStats(""), ensure.before, NonEntry("null"))
    /\ ensure' = NoEnsure
    /\ SessionsUnused

\* a log file with an event, which the user may neither read nor write
Unwritable ==
    LogFile("EACCES",
            <<JsonLine(Entry(Iso(2, 10, 0, 0, "Z"), "copilot suggest",
                             "github-copilot-suggest", "w1", 60, 120, 180, 1200))>>)

InitLog ==
    /\ logFile \in {LogFile("nodir", <<>>), LogFile("ok", <<>>), Unwritable}
    /\ lastLog = NoLogCall
    /\ ensure = NoEnsure
    /\ dirState = "ok"
    /\ dir = <<>>
    /\ now = 1
    /\ tz \in TimeZones
    /\ last = NoCall
    /\ lastParse = NoParse
    /\ lastDates = NoDates
    /\ trackPc = "off"
    /\ sessionFiles = <<>>
    /\ startIdx = 0
    /\ timerArmed = FALSE
    /\ polls = [s \in 1..MaxPolls |-> IdlePoll]
    /\ processedFiles = {}
    /\ totalTracked = 0
    /\ totalTokens = 0
    /\ invoked = [n \in {} |-> 0]
    /\ byPoll = [n \in {} |-> 0]
    /\ trackHandler = FALSE
    /\ summary = NoSummary
    /\ DashOff

NextLog ==
    \/ \E line \in WrapperLines : WrapperAppend(line)
    \/ LogChmod
    \/ \E usage \in Usages : CallLogUsage(usage)
    \/ \E date \in Dates : CallGetUsageForDate(date)
    \/ \E date \in Dates : CallGetDailyStats(date)
    \/ EnsureAccess
    \/ EnsureMkdir
    \/ EnsureWrite

SpecLog == InitLog /\ [][NextLog]_vars

----------------------------------------------------------------------------
(* Properties of UsageLogger (SpecLog).  lastLog.before is the log file    *)
(* the call read or wrote; the timezone does not change.                   *)

\* the line holds a JSON object
IsEvent(line) == line.kind = "json" /\ line.value.type = "object"

\* the timestamp of the line is a date whose UTC calendar date is date
OnUtcDate(line, date) ==
    /\ line.value.timestamp.kind = "iso"
    /\ \E k \in 1..Len(DayNames) :
          /\ DayNames[k] = date
          /\ (k - 1) * MsPerDay <= DateParse(line.value.timestamp, tz).v
          /\ DateParse(line.value.timestamp, tz).v < k * MsPerDay

\* the event of a line as a CopilotUsage: its timestamp is a Date
AsUsage(line) == [line.value EXCEPT !.timestamp = DateParse(line.value.timestamp, tz)]

\* the events of the lines that match date, in file order
EventsOn(lines, date) ==
    LET chosen == SelectSeq(lines, LAMBDA l : IsEvent(l) /\ OnUtcDate(l, date))
    IN [i \in 1..Len(chosen) |-> AsUsage(chosen[i])]

WithoutBroken(log) ==
    [log EXCEPT !.lines = SelectSeq(log.lines, LAMBDA l : l.kind # "garbage")]

\* a line that is JSON, not null, and has no valid timestamp
Undated(line) ==
    line.kind = "json" /\ line.value.type # "null" /\ line.value.timestamp.kind # "iso"

\* C15: getUsageForDate parses each non-blank line on its own: a line that
\* is not valid JSON raises no error and changes nothing for the other
\* lines; the list returned is the date-matching events of the remaining
\* lines, in file order.
C15_BrokenLinesDropped ==
    lastLog.op = "getUsageForDate" =>
        LET log == lastLog.before
            rest == getUsageForDate(WithoutBroken(log), lastLog.date, tz)
        IN /\ lastLog.threw = rest.threw
           /\ lastLog.events = rest.events
           /\ lastLog.threw =>
                 \/ log.state = "EACCES"
                 \/ \E i \in 1..Len(log.lines) : Undated(log.lines[i])
           /\ (log.state = "ok" /\ ~lastLog.threw) =>
                 lastLog.events = EventsOn(WithoutBroken(log).lines, lastLog.date)

\* a broken line stood between two events, and both were returned
C15_Witness ==
    /\ lastLog.op = "getUsageForDate"
    /\ ~lastLog.threw
    /\ Len(lastLog.events) = 2
    /\ Len(lastLog.before.lines) = 3
    /\ lastLog.before.lines[2].kind = "garbage"

\* the event of the line is in the list the call returned
Returned(line) == \E k \in 1..Len(lastLog.events) : lastLog.events[k] = AsUsage(line)

\* C16 (as claimed): getUsageForDate(date) returns an event iff the
\* timestamp string stored in its line starts with date, also for a
\* timestamp written with a non-UTC offset.
C16_ReturnedIffStoredPrefix ==
    (lastLog.op = "getUsageForDate" /\ ~lastLog.threw /\ lastLog.before.state = "ok") =>
        \A i \in 1..Len(lastLog.before.lines) :
            LET line == lastLog.before.lines[i] IN
            (IsEvent(line) /\ line.value.timestamp.kind = "iso") =>
                (Returned(line) <=> DayNames[line.value.timestamp.day + 1] = lastLog.date)

\* C16 (amended): getUsageForDate(date) returns an event iff the UTC
\* calendar date of the instant its stored timestamp denotes is date.
C16_ReturnedIffUtcDate ==
    (lastLog.op = "getUsageForDate" /\ ~lastLog.threw /\ lastLog.before.state = "ok") =>
        \A i \in 1..Len(lastLog.before.lines) :
            LET line == lastLog.before.lines[i] IN
            (IsEvent(line) /\ line.value.timestamp.kind = "iso") =>
                (Returned(line) <=> OnUtcDate(line, lastLog.date))

\* an event stored with an offset was returned for the UTC date, which is
\* not the date its timestamp string starts with
C16_Witness ==
    /\ lastLog.op = "getUsageForDate"
    /\ ~lastLog.threw
    /\ \E i \in 1..Len(lastLog.before.lines) :
          /\ IsEvent(lastLog.before.lines[i])
          /\ lastLog.before.lines[i].value.timestamp.zone = "+05:30"
          /\ DayNames[lastLog.before.lines[i].value.timestamp.day + 1] # lastLog.date
          /\ Returned(lastLog.before.lines[i])

\* C17: a call of ensureLogFile on an existing log file leaves its content
\* unchanged; on an absent one it creates the parent directory and an empty
\* file; after a call the file exists, so that a second call changes nothing.
C17_EnsureIdempotent ==
    lastLog.op = "ensureLogFile" =>
        /\ lastLog.before.state \in {"ok", "EACCES"} =>
              (~lastLog.threw /\ logFile = lastLog.before)
        /\ lastLog.before.state \in {"nodir", "absent"} =>
              (~lastLog.threw /\ logFile = LogFile("ok", <<>>))
        /\ FsAccess(logFile)

\* a call on a log file that held events
C17_Witness ==
    /\ lastLog.op = "ensureLogFile"
    /\ lastLog.before.state = "ok"
    /\ Len(lastLog.before.lines) >= 2
    /\ logFile = lastLog.before

\* C18 (as claimed): logUsage never raises; when the write succeeds the
\* log has grown by the one line of the event, its timestamp in ISO form,
\* the earlier lines unchanged; when it fails the log is unchanged.
C18_LogUsageNeverRaises ==
    lastLog.op = "logUsage" =>
        /\ ~lastLog.threw
        /\ lastLog.error = "" =>
              /\ logFile.state = "ok"
              /\ Len(logFile.lines) = Len(lastLog.before.lines) + 1
              /\ SubSeq(logFile.lines, 1, Len(lastLog.before.lines)) = lastLog.before.lines
              /\ IsEvent(logFile.lines[Len(logFile.lines)])
              /\ AsUsage(logFile.lines[Len(logFile.lines)]) = lastLog.usage
              /\ logFile.lines[Len(logFile.lines)].value.timestamp.zone = "Z"
        /\ lastLog.error # "" => logFile = lastLog.before

HourNames ==
    <<"00", "01", "02", "03", "04", "05", "06", "07", "08", "09", "10", "11",
      "12", "13", "14", "15", "16", "17", "18", "19", "20", "21", "22", "23">>

\* the events of the list that fall into the local hour h
InHour(events, h) ==
    {i \in 1..Len(events) : HourNames[GetHours(events[i].timestamp.v, tz) + 1] = h}

C27_NoErrorForAnyContent ==
    (lastLog.op = "getUsageForDate" /\ lastLog.before.state = "ok") =>
        /\ ~lastLog.threw
        /\ lastLog.events = EventsOn(lastLog.before.lines, lastLog.date)

\* C28 (as claimed): no step of ensureLogFile, however it interleaves with
\* appends to the same path, removes a line from the log: the log only grows.
C28_NoAppendedEventLost ==
    [][/\ Len(logFile'.lines) >= Len(logFile.lines)
       /\ SubSeq(logFile'.lines, 1, Len(logFile.lines)) = logFile.lines]_vars

----------------------------------------------------------------------------
(* Further properties of getUsageByDate (Spec) *)

\* the hour of the day in UTC of an instant: date.getUTCHours()
GetUTCHours(t) == (t \div MsPerHour) % 24

\* the matching sessions whose startTime falls into hour h of the UTC day
StartInUtcHour(M, h) ==
    {i \in M : GetUTCHours(DateParse(FileAt(i).text.value.startTime, tz).v) = h}

\* C21 (as claimed): a matching session is accumulated into the bucket of
\* the UTC hour of its startTime, whatever the timezone of the runtime: each
\* bucket holds the prompts and tokens of the sessions that start in its
\* hour of the UTC day.
C21_HourBucketIsUtcHour ==
    last.valid =>
        LET M == Matching(last.date, CallTime) IN
        \A h \in 0..(HoursPerDay - 1) :
            LET H == StartInUtcHour(M, h)
                bucket == last.stats.hourlyBreakdown[HourNames[h + 1]]
            IN /\ bucket.prompts = SumOver(H, [i \in H |-> MetricsAt(i).prompts])
               /\ bucket.tokens = SumOver(H, [i \in H |-> MetricsAt(i).tokens])

\* a JavaScript number that is a whole number not below 0
NonNegative(x) == ~x.nan /\ x.v >= 0

\* C26 (as claimed): the duration of every session counted is a whole
\* number of seconds not below 0, and so are totalDuration and the duration
\* of every hour bucket, also for a session whose endTime is earlier than
\* its startTime or is no valid timestamp.
C26_DurationsNonNegative ==
    last.valid =>
        /\ \A k \in 1..Len(last.metrics) : NonNegative(last.metrics[k].duration)
        /\ NonNegative(last.stats.totalDuration)
        /\ \A h \in DOMAIN last.stats.hourlyBreakdown :
              NonNegative(last.stats.hourlyBreakdown[h].duration)

\* C29 (as claimed): uniqueSessions is the number of distinct sessionId
\* values among the matching sessions: two files of one sessionId that match
\* the date count once.
C29_UniqueSessionsDistinctIds ==
    last.valid =>
        last.stats.uniqueSessions
          = Cardinality({FileAt(i).text.value.sessionId.s : i \in Matching(last.date, CallTime)})

----------------------------------------------------------------------------
(* SpecDash: dashboardCommand, one step per resumption after an await, and *)
(* per firing of its interval timer; the session directory grows and the   *)
(* clock passes midnight meanwhile.                                        *)

\* the readings of the clock: 23:00 UTC of the 15th, 01:00 UTC of the 16th
DashClock == <<2 * MsPerDay + 23 * MsPerHour,
               3 * MsPerDay + 1 * MsPerHour>>

\* the files the dashboard meets: a session of the 15th, a session of the
\* first half hour of the 16th, and a file that fails to parse
DashContents == {
    Json(Obj(Str("s1"), Arr(<<Text("user", 4), Text("assistant", 8)>>),
             Iso(2, 10, 0, 0, "Z"), Iso(2, 10, 5, 0, "Z"))),
    Json(Obj(Str("s2"), Arr(<<Text("user", 5)>>),
             Iso(3, 0, 30, 0, "Z"), Iso(3, 0, 40, 0, "Z"))),
    Raw("garbage") }

\* what no step of the dashboard touches
DashOnly ==
    /\ UNCHANGED <<dirState, dir, now, tz, last, lastParse>>
    /\ UNCHANGED trackVars
    /\ UNCHANGED logVars

\* the Copilot CLI writes a session file while the dashboard runs
DashAddFile(file) ==
    /\ Len(dir) < MaxDashFiles
    /\ dir' = Append(dir, [name |-> FreshName(dir), file |-> file])
    /\ lastDates' = NoDates
    /\ UNCHANGED <<dirState, now, tz, last, lastParse>>
    /\ UNCHANGED trackVars
    /\ UNCHANGED logVars
    /\ UNCHANGED dashVars

\* time passes
DashClockTick ==
    /\ now < Len(DashClock)
    /\ now' = now + 1
    /\ UNCHANGED <<dirState, dir, tz, last, lastParse, lastDates>>
    /\ UNCHANGED trackVars
    /\ UNCHANGED logVars
    /\ UNCHANGED dashVars

\* updateDashboard() runs up to its await: today = new Date().toISOString()...
StartUpdate == [today |-> ISODate(DashClock[now]), startedAt |-> now]

\* dashboardCommand resumes after getAvailableDates: it hides the cursor,
\* installs the SIGINT handler and starts the initial update
DashBegin ==
    /\ dashPc = "start"
    /\ lastDates' = [valid |-> TRUE, dates |-> getAvailableDates(dirState, dir, tz)]
    /\ cursor' = "hidden"
    /\ dashHandler' = TRUE
    /\ inflight' = <<StartUpdate>>
    /\ dashPc' = "initial"
    /\ UNCHANGED <<dashTimer, updateCount, lastTick>>
    /\ DashOnly

\* the interval timer fires: another updateDashboard() starts
DashTimerFire ==
    /\ dashPc = "looping"
    /\ dashTimer
    /\ Len(inflight) < MaxInFlight
    /\ updateCount + 2 * Len(inflight) < 2 * MaxTicks
    /\ inflight' = Append(inflight, StartUpdate)
    /\ UNCHANGED <<dashPc, cursor, dashHandler, dashTimer, updateCount, lastTick, lastDates>>
    /\ DashOnly

\* mutant: no try/catch in updateDashboard: the error of a failing update
\* reaches the event loop and ends the process
DashUpdated_noCatch(k, fails) ==
    LET tick == inflight[k]
        r == getUsageByDate(dirState, dir, tick.today, DashClock[now], tz)
        failed == r.threw \/ fails
    IN /\ dashPc \in {"initial", "looping"}
       /\ inflight' = IF failed THEN <<>>
                      ELSE SubSeq(inflight, 1, k - 1) \o SubSeq(inflight, k + 1, Len(inflight))
       /\ updateCount' = IF r.threw THEN updateCount ELSE updateCount + 2
       /\ lastTick' = [valid |-> TRUE, failed |-> failed, today |-> tick.today,
                       startedAt |-> tick.startedAt, at |-> now, stats |-> r.stats,
                       seen |-> dir,
                       failures |-> lastTick.failures + (IF failed THEN 1 ELSE 0)]
       /\ dashPc' = IF failed THEN "crashed" ELSE "looping"
       /\ dashTimer' = ~failed
       /\ UNCHANGED <<cursor, dashHandler, lastDates>>
       /\ DashOnly

\* an updateDashboard() resumes after getUsageByDate, counts the update and
\* renders it; the rendering writes to the terminal and may raise (fails);
\* whatever is raised is caught.  When the initial update has returned,
\* dashboardCommand calls setInterval
DashUpdated(k, fails) ==
    LET tick == inflight[k]
        r == getUsageByDate(dirState, dir, tick.today, DashClock[now], tz)
        failed == r.threw \/ fails
    IN /\ dashPc \in {"initial", "looping"}
       /\ inflight' = SubSeq(inflight, 1, k - 1) \o SubSeq(inflight, k + 1, Len(inflight))
       /\ updateCount' = IF r.threw THEN updateCount ELSE updateCount + 2
       /\ lastTick' = [valid |-> TRUE, failed |-> failed, today |-> tick.today,
                       startedAt |-> tick.startedAt, at |-> now, stats |-> r.stats,
                       seen |-> dir,
                       failures |-> lastTick.failures + (IF failed THEN 1 ELSE 0)]
       /\ dashPc' = "looping"
       /\ dashTimer' = TRUE
       /\ UNCHANGED <<cursor, dashHandler, lastDates>>
       /\ DashOnly

\* mutant: the handler exits without restoring the cursor
DashInterrupt_leavesCursor ==
    /\ dashPc \in {"start", "initial", "looping"}
    /\ dashPc' = IF dashHandler THEN "exited" ELSE "killed"
    /\ dashTimer' = FALSE
    /\ inflight' = <<>>
    /\ UNCHANGED <<cursor, dashHandler, updateCount, lastTick, lastDates>>
    /\ DashOnly

\* SIGINT arrives: the handler, when installed, shows the cursor and calls
\* process.exit(0); without a handler the signal ends the process
DashInterrupt ==
    /\ dashPc \in {"start", "initial", "looping"}
    /\ IF dashHandler
       THEN cursor' = "visible" /\ dashPc' = "exited"
       ELSE UNCHANGED cursor /\ dashPc' = "killed"
    /\ dashTimer' = FALSE
    /\ inflight' = <<>>
    /\ UNCHANGED <<dashHandler, updateCount, lastTick, lastDates>>
    /\ DashOnly

InitDash ==
    /\ dirState = "ok"
    /\ dir = <<>>
    /\ now = 1
    /\ tz \in TimeZones
    /\ last = NoCall
    /\ lastParse = NoParse
    /\ lastDates = NoDates
    /\ trackPc = "off"
    /\ sessionFiles = <<>>
    /\ startIdx = 0
    /\ timerArmed = FALSE
    /\ polls = [s \in 1..MaxPolls |-> IdlePoll]
    /\ processedFiles = {}
    /\ totalTracked = 0
    /\ totalTokens = 0
    /\ invoked = [n \in {} |-> 0]
    /\ byPoll = [n \in {} |-> 0]
    /\ trackHandler = FALSE
    /\ summary = NoSummary
    /\ LoggerOff
    /\ dashPc = "start"
    /\ cursor = "visible"
    /\ dashHandler = FALSE
    /\ dashTimer = FALSE
    /\ updateCount = 0
    /\ inflight = <<>>
    /\ lastTick = NoTick

NextDash ==
    \/ \E file \in DashContents : DashAddFile(file)
    \/ DashClockTick
    \/ DashBegin
    \/ DashTimerFire
    \/ \E k \in 1..Len(inflight), fails \in BOOLEAN : DashUpdated(k, fails)
    \/ DashInterrupt

SpecDash == InitDash /\ [][NextDash]_vars

\* the entries of directory d that hold a session matching date at time t
DashMatching(d, date, t) ==
    {i \in 1..Len(d) :
        /\ IsSessionName(d[i].name)
        /\ WellFormed(d[i].file)
        /\ StartsOn(d[i].file.text.value, date)
        /\ DateParse(d[i].file.text.value.startTime, tz).v <= t}

\* C22: a failing update does not stop the dashboard loop: once an update
\* has returned, failed or not, the interval timer is armed for as long as
\* the dashboard runs, and every update, also one after a failed one, has
\* queried the whole directory for the date that was current when it began.
C22_FailedTickKeepsLoop ==
    lastTick.valid =>
        /\ dashPc \notin {"exited", "killed"} => (dashPc = "looping" /\ dashTimer)
        /\ lastTick.today = DayNames[(DashClock[lastTick.startedAt] \div MsPerDay) + 1]
        /\ lastTick.stats.date = lastTick.today
        /\ lastTick.stats.uniqueSessions
             = Cardinality(DashMatching(lastTick.seen, lastTick.today, DashClock[lastTick.at]))

\* after a failed update, and after midnight, an update found the session
\* of the new day
C22_Witness ==
    /\ lastTick.valid
    /\ ~lastTick.failed
    /\ lastTick.failures >= 1
    /\ lastTick.today = "2024-01-16"
    /\ lastTick.stats.uniqueSessions = 1
    /\ dashTimer

----------------------------------------------------------------------------
(* SpecSig: the interrupt signal.  The user runs track on a directory of   *)
(* sessions, stops it with Ctrl-C at any moment, then runs dashboard and   *)
(* stops it likewise.                                                      *)

\* the directories: up to MaxSigFiles sessions
SigDirs ==
    {[i \in 1..n |->
         [name |-> SessionNames[i],
          file |-> Json(Obj(Str("s1"), Arr(<<Text("user", 4), Text("assistant", 8)>>),
                            Iso(2, 10, 0, 0, "Z"), Iso(2, 10, 5, 0, "Z")))]] :
        n \in 0..MaxSigFiles}

\* the user starts the dashboard when the tracker is gone
DashLaunch ==
    /\ trackPc \in {"exited", "killed"}
    /\ dashPc = "off"
    /\ dashPc' = "start"
    /\ UNCHANGED <<cursor, dashHandler, dashTimer, updateCount, inflight, lastTick, lastDates>>
    /\ DashOnly

InitSig ==
    /\ dirState = "ok"
    /\ dir \in SigDirs
    /\ now = 1
    /\ tz = 0
    /\ last = NoCall
    /\ lastParse = NoParse
    /\ lastDates = NoDates
    /\ trackPc = "start"
    /\ sessionFiles = <<>>
    /\ startIdx = 0
    /\ timerArmed = FALSE
    /\ polls = [s \in 1..MaxPolls |-> IdlePoll]
    /\ processedFiles = {}
    /\ totalTracked = 0
    /\ totalTokens = 0
    /\ invoked = [n \in NameSet |-> 0]
    /\ byPoll = [n \in NameSet |-> 0]
    /\ trackHandler = FALSE
    /\ summary = NoSummary
    /\ LoggerOff
    /\ DashOff

NextSig ==
    \/ TrackList
    \/ TrackProcess
    \/ TrackProcessed
    \/ TrackWatch
    \/ \E s \in 1..MaxPolls : TimerFire(s)
    \/ \E s \in 1..MaxPolls : PollList(s)
    \/ \E s \in 1..MaxPolls : PollProcess(s)
    \/ \E s \in 1..MaxPolls : PollProcessed(s)
    \/ \E s \in 1..MaxPolls : PollDone(s)
    \/ TrackInterrupt
    \/ DashLaunch
    \/ DashBegin
    \/ DashTimerFire
    \/ \E k \in 1..Len(inflight), fails \in BOOLEAN : DashUpdated(k, fails)
    \/ DashInterrupt

SpecSig == InitSig /\ [][NextSig]_vars

\* processSessionFile has been called
SomeInvoked == \E n \in DOMAIN invoked : invoked[n] > 0

\* an update of the dashboard has begun
SomeUpdate == updateCount > 0 \/ inflight # <<>> \/ lastTick.valid

----------------------------------------------------------------------------
(* Further properties of trackCommand (SpecTrack) *)

\* C24 (as claimed): no session file path is passed to processSessionFile
\* by two invocations of checkForNewSessions, also when they overlap.
C24_NoPathPassedByTwoPolls ==
    \A name \in DOMAIN byPoll : byPoll[name] <= 1

\* C25 (as claimed): the summary printed on SIGINT reports the number of
\* session files processSessionFile has completed successfully and the sum
\* of their token estimates.
C25_SummaryReportsTotals ==
    summary.printed =>
        /\ summary.tracked = totalTracked
        /\ summary.tokens = totalTokens

----------------------------------------------------------------------------
(* SpecDates: callers of getAvailableDates and of getUsageByDate on the    *)
(* same directory.                                                         *)

\* the files of the directory: a session of the 15th, one whose offset puts
\* it on the 14th, one that starts after the first clock reading, and one
\* whose startTime is no date
DateContents == {
    Json(Obj(Str("s1"), Arr(<<Text("user", 4), Text("assistant", 8)>>),
             Iso(2, 10, 0, 0, "Z"), Iso(2, 10, 5, 0, "Z"))),
    Json(Obj(Str("s2"), Arr(<<Text("user", 5), Calls("assistant", 2), Text("tool", 9)>>),
             Iso(2, 4, 30, 0, "+05:30"), Undefined)),
    Json(Obj(Str("s4"), Arr(<<Text("user", 1)>>), Iso(2, 16, 0, 0, "Z"), Undefined)),
    Json(Obj(Str("s6"), Arr(<<Text("user", 4)>>), Garbage, Undefined)) }

InitDates ==
    /\ dirState = "ok"
    /\ dir = <<>>
    /\ now = 1
    /\ tz \in TimeZones
    /\ last = NoCall
    /\ lastParse = NoParse
    /\ lastDates = NoDates
    /\ trackPc = "off"
    /\ sessionFiles = <<>>
    /\ startIdx = 0
    /\ timerArmed = FALSE
    /\ polls = [s \in 1..MaxPolls |-> IdlePoll]
    /\ processedFiles = {}
    /\ totalTracked = 0
    /\ totalTokens = 0
    /\ invoked = [n \in {} |-> 0]
    /\ byPoll = [n \in {} |-> 0]
    /\ trackHandler = FALSE
    /\ summary = NoSummary
    /\ LoggerOff
    /\ DashOff

NextDates ==
    \/ \E file \in DateContents : AddSessionFile(file)
    \/ Tick
    \/ \E targetDate \in Dates : CallGetUsageByDate(targetDate)
    \/ CallGetAvailableDates

SpecDates == InitDates /\ [][NextDates]_vars

\* the position of a date in the calendar
DayIndex(date) == CHOOSE k \in 1..Len(DayNames) : DayNames[k] = date

\* C30 (as claimed): on one state of the directory, getAvailableDates
\* returns a date iff getUsageByDate finds at least one session for it, and
\* the list returned is in ascending order without duplicates.
C30_DatesAgreeWithUsage ==
    (last.valid /\ lastDates.valid) =>
        /\ (\E k \in 1..Len(lastDates.dates) : lastDates.dates[k] = last.date)
              <=> last.stats.uniqueSessions >= 1
        /\ \A j, k \in 1..Len(lastDates.dates) :
              j < k => DayIndex(lastDates.dates[j]) < DayIndex(lastDates.dates[k])

====
